---- MODULE Spec2Model ----
(***************************************************************************)
(* Model of the ebuse event store: the EventStore contract implemented by  *)
(* SQLiteStore (relational, RWMutex + prepared statements) and PebbleStore *)
(* (LSM key-value engine, atomic position counter), driven by concurrent   *)
(* request threads.                                                        *)
(***************************************************************************)
EXTENDS Integers, Sequences, FiniteSets, TLC

\* ---------------------------------------------------------------- bounds
NumThreads == 2
MaxEvents == 3
MaxBatch == 2
MaxBatchSize == 2
MaxArg == 4
MaxTenants == 2

Threads == 1..NumThreads
Backends == {"sqlite", "pebble"}

\* Arguments the callers pass to Load and LoadStream.
FromVals == 0..MaxArg
ToVals == (-1)..MaxArg
BatchSizes == 1..MaxBatchSize

\* ------------------------------------------------- program constants
eventPrefix == 1
DefaultLoadLimit == 10000
DefaultBatchSize == 1000
MaxNameLen == 100
MaxStreamBatch == 5000
BatchLimit == 1000

VARIABLES
    backend,    \* which EventStore implementation the store instance is
    position,   \* PebbleStore.position (atomic.Int64)
    kv,         \* PebbleStore.db: key (byte sequence) -> value
    events,     \* SQLite table "events": set of rows
    seq,        \* SQLite sqlite_sequence entry of table "events" (AUTOINCREMENT)
    tx,         \* SQLite transaction opened by SaveBatch
    mu,         \* SQLiteStore.mu: the thread holding the exclusive side, or 0
    pc,         \* per thread: where the thread stands in its current call
    loc,        \* per thread: arguments and locals of the current call
    ret,        \* the call that returned last, and what it returned
    nextId,     \* number of events handed to Save/SaveBatch so far
    acks,       \* the Save/SaveBatch calls that returned success
    subscriptions, \* SQLite table "subscriptions": subscription_id -> position
    lastSub,    \* per subscription id: the value saved last, and whether it replaced one
    cfg,        \* the TenantsConfig handed to NewTenantManager
    tm,         \* the TenantManager NewTenantManager returned
    stores,     \* the store instances opened by the process, in order of opening
    disk        \* storage path -> what the database at that path holds

vars == <<backend, position, kv, events, seq, tx, mu, pc, loc, ret, nextId, acks, subscriptions, lastSub, cfg, tm, stores, disk>>

\* ------------------------------------------------------------- helpers
Min(a, b) == IF a < b THEN a ELSE b

Max(a, b) == IF a > b THEN a ELSE b

SetMax(S) == CHOOSE x \in S : \A y \in S : y <= x

Range(s) == {s[i] : i \in 1..Len(s)}

RECURSIVE Concat(_)
Concat(ss) == IF ss = <<>> THEN <<>> ELSE Head(ss) \o Concat(Tail(ss))

Take(s, n) == SubSeq(s, 1, Min(n, Len(s)))

\* The stored event: StoredEvent{Position, Type/Data/Timestamp}; the payload
\* (type, data, timestamp) is opaque to the store and stands as one id.
StoredEvent(p, e) == [position |-> p, id |-> e]

\* The payloads of one call: the i-th of the n events handed over together,
\* the first of which is the (first)-th event ever handed to the store.
Payloads(first, n) == [i \in 1..n |-> [first |-> first, n |-> n, i |-> i]]

NoTx == [active |-> FALSE, rows |-> {}, seq |-> 0]

NoLoc == [op |-> "none"]

NoRet == [op |-> "none"]

NoCfg == [Tenants |-> <<>>, DataDir |-> "", StoreBackend |-> "none"]

NoTm == [built |-> FALSE]

\* ----------------------------------------------------- LSM key encoding
\* Byte k (0 = least significant) of the 64-bit two's-complement pattern
\* of x, as uint64(position) followed by BigEndian.PutUint64 produces it.
ByteOf(x, k) ==
    LET m == IF x >= 0 THEN x ELSE (0 - x) - 1
        d == IF k >= 4 THEN 0 ELSE (m \div (256 ^ k)) % 256
    IN  IF x >= 0 THEN d ELSE 255 - d

eventKeyLittleEndian(p) == <<eventPrefix>> \o [i \in 1..8 |-> ByteOf(p, i - 1)]

eventKey(p) == <<eventPrefix>> \o [i \in 1..8 |-> ByteOf(p, 8 - i)]

\* The upper bound []byte{eventPrefix + 1} of the whole event key range.
eventRangeEnd == <<eventPrefix + 1>>

\* bytes.Compare(a, b) < 0, Pebble's default key order.
KeyLess(a, b) ==
    \E i \in 1..(Len(a) + 1) :
        /\ \A j \in 1..(i - 1) : j <= Len(b) /\ a[j] = b[j]
        /\ \/ i = Len(a) + 1 /\ Len(b) >= i
           \/ i <= Len(a) /\ i <= Len(b) /\ a[i] < b[i]

RECURSIVE KeysAscending(_)
KeysAscending(K) ==
    IF K = {} THEN <<>>
    ELSE LET k == CHOOSE x \in K : \A y \in K : y = x \/ KeyLess(x, y)
         IN  <<k>> \o KeysAscending(K \ {k})

\* db.NewIter(LowerBound, UpperBound) then First/Next until !Valid: the
\* values under the keys lower <= key < upper of the snapshot, ascending.
IterScan(store, lower, upper) ==
    LET K == {k \in DOMAIN store : ~KeyLess(k, lower) /\ KeyLess(k, upper)}
        ks == KeysAscending(K)
    IN  [i \in 1..Len(ks) |-> store[ks[i]]]

\* ------------------------------------------------------ SQL statements
\* ORDER BY position: the rows of R, whose positions lie in lo..hi, by
\* ascending position; the range is halved until it holds one row.
RECURSIVE RowsInRange(_, _, _)
RowsInRange(R, lo, hi) ==
    IF R = {} THEN <<>>
    ELSE IF Cardinality(R) = 1 \/ lo >= hi
    THEN LET r == CHOOSE x \in R : \A y \in R : x.position <= y.position
         IN  <<r>> \o RowsInRange(R \ {r}, lo, hi)
    ELSE LET mid == (lo + hi) \div 2
             low == {r \in R : r.position <= mid}
             high == {r \in R : r.position > mid}
         IN  RowsInRange(low, lo, mid) \o RowsInRange(high, mid + 1, hi)

\* A power of two b with -b <= r.position <= b for every row r of R.
RECURSIVE PositionBound(_, _)
PositionBound(R, b) ==
    IF \A r \in R : (0 - b) <= r.position /\ r.position <= b THEN b
    ELSE PositionBound(R, 2 * b)

RowsAscending(R) ==
    LET b == PositionBound(R, 1)
    IN  RowsInRange(R, 0 - b, b)

\* LIMIT n (a negative LIMIT means no limit in SQLite).
Limit(s, n) == IF n < 0 THEN s ELSE Take(s, n)

\* loadStmt without its WHERE clause.
loadStmtUnbounded(table, from, limit) == Limit(RowsAscending(table), limit)

\* loadStmt: SELECT ... WHERE position >= ? ORDER BY position LIMIT ?
loadStmt(table, from, limit) ==
    Limit(RowsAscending({r \in table : r.position >= from}), limit)

\* loadRangeStmt: SELECT ... WHERE position >= ? AND position <= ? ORDER BY position
loadRangeStmt(table, from, to) ==
    RowsAscending({r \in table : r.position >= from /\ r.position <= to})

\* positionStmt: SELECT MAX(position) FROM events, NULL scanned as 0
positionStmt(table) ==
    IF table = {} THEN 0 ELSE SetMax({r.position : r \in table})

\* INTEGER PRIMARY KEY AUTOINCREMENT: the rowid given to the next insert.
NewRowid(table, s) == Max(s, positionStmt(table)) + 1

\* ------------------------------------------------- the store, observed
\* The events a reader of the store can load.
Persisted ==
    IF backend = "pebble"
    THEN {kv[k] : k \in {x \in DOMAIN kv : x[1] = eventPrefix}}
    ELSE events

PersistedPositions == {r.position : r \in Persisted}

MaxPersisted == IF Persisted = {} THEN 0 ELSE SetMax(PersistedPositions)

\* GetPosition()
GetPosition == IF backend = "pebble" THEN position ELSE positionStmt(events)

\* Load(from, to)
PebbleLoadExclusive(store, from, to) == IterScan(store, eventKey(from), eventKey(to))

PebbleLoad(store, from, to) == IterScan(store, eventKey(from), eventKey(to + 1))

SQLiteLoad(table, from, to) ==
    IF to = -1 THEN loadStmt(table, from, DefaultLoadLimit)
    ELSE loadRangeStmt(table, from, to)

LoadResult(from, to) ==
    IF backend = "pebble" THEN PebbleLoad(kv, from, to) ELSE SQLiteLoad(events, from, to)

\* ------------------------------------------------------------ bookkeeping
\* What a returning Save/SaveBatch hands back: ok, and the Position fields of
\* the caller's events; p0 is GetPosition() when the call began.
WriteReturn(op, ok, p0, ids, pos) ==
    [op |-> op, ok |-> ok, p0 |-> p0, ids |-> ids, pos |-> pos]

\* done: how many events had been handed to the store, by any call, when the
\* call returned.
Ack(op, ok, ids, pos) ==
    IF ok THEN acks \cup {[op |-> op, ids |-> ids, pos |-> pos, done |-> nextId]}
    ELSE acks

\* s.position.Add(1): the value the atomic add-and-fetch returns for a counter
\* that held c.
positionAddOld(c) == c

positionAdd(c) == c + 1

\* The deferred tx.Rollback() of a SaveBatch that returns an error: what the
\* table holds once the transaction txn is gone.
RollbackKeepsRows(table, txn) == table \cup txn.rows

Rollback(table, txn) == table

\* The single store after NewSQLiteStore / NewPebbleStore on a fresh path.
InitStore ==
    /\ backend \in Backends
    /\ position = 0
    /\ kv = <<>>
    /\ events = {}
    /\ seq = 0
    /\ tx = NoTx
    /\ mu = 0
    /\ pc = [t \in Threads |-> "idle"]
    /\ loc = [t \in Threads |-> NoLoc]
    /\ ret = NoRet
    /\ nextId = 0
    /\ acks = {}
    /\ subscriptions = <<>>
    /\ lastSub = <<>>

Init ==
    /\ InitStore
    /\ cfg = NoCfg
    /\ tm = NoTm
    /\ stores = <<>>
    /\ disk = <<>>

\* ============================================================ PebbleStore
\* Save: position := s.position.Add(1); event.Position = position;
\* json.Marshal(event), which fails on a payload that is not valid JSON.
PebbleSaveAdd(t) ==
    /\ backend = "pebble" /\ pc[t] = "idle" /\ nextId < MaxEvents
    /\ \E bad \in BOOLEAN :
        LET p == positionAdd(position)
            ids == Payloads(nextId + 1, 1)
        IN  /\ position' = p
            /\ nextId' = nextId + 1
            /\ IF bad
               THEN /\ pc' = pc
                    /\ loc' = loc
                    /\ ret' = WriteReturn("Save", FALSE, position, ids, <<p>>)
               ELSE /\ pc' = [pc EXCEPT ![t] = "p_save_set"]
                    /\ loc' = [loc EXCEPT ![t] =
                          [op |-> "Save", p0 |-> position, ids |-> ids, pos |-> <<p>>]]
                    /\ ret' = NoRet
    /\ UNCHANGED <<backend, kv, events, seq, tx, mu, acks, subscriptions, lastSub, cfg, tm, stores, disk>>

\* Save: s.db.Set(eventKey(position), data, pebble.NoSync)
PebbleSaveSet(t) ==
    /\ backend = "pebble" /\ pc[t] = "p_save_set"
    /\ \E ioerr \in BOOLEAN :
        LET p == loc[t].pos[1]
            e == loc[t].ids[1]
        IN  /\ kv' = IF ioerr THEN kv
                     ELSE (eventKey(p) :> StoredEvent(p, e)) @@ kv
            /\ ret' = WriteReturn("Save", ~ioerr, loc[t].p0, loc[t].ids, <<p>>)
            /\ acks' = Ack("Save", ~ioerr, loc[t].ids, <<p>>)
    /\ pc' = [pc EXCEPT ![t] = "idle"]
    /\ loc' = [loc EXCEPT ![t] = NoLoc]
    /\ UNCHANGED <<backend, position, events, seq, tx, mu, nextId, subscriptions, lastSub, cfg, tm, stores, disk>>

\* What can fail in a SaveBatch of no events: were the length tested after
\* the transaction or batch is begun, the call could fail.
EmptyBatchFailuresTx == BOOLEAN

\* "if len(events) == 0 { return nil }" is the first statement: nothing that
\* can fail runs before it.
EmptyBatchFailures == {FALSE}

\* SaveBatch: len(events) == 0 returns nil before anything else (both backends).
SaveBatchEmpty(t) ==
    /\ pc[t] = "idle"
    /\ \E fail \in EmptyBatchFailures :
        ret' = WriteReturn("SaveBatch", ~fail, GetPosition, <<>>, <<>>)
    /\ UNCHANGED <<backend, position, kv, events, seq, tx, mu, pc, loc, nextId, acks, subscriptions, lastSub, cfg, tm, stores, disk>>

\* SaveBatch: batch := s.db.NewBatch()
PebbleBatchBegin(t) ==
    /\ backend = "pebble" /\ pc[t] = "idle"
    /\ \E n \in 1..MaxBatch :
        /\ nextId + n <= MaxEvents
        /\ nextId' = nextId + n
        /\ loc' = [loc EXCEPT ![t] =
              [op |-> "SaveBatch", p0 |-> position,
               ids |-> Payloads(nextId + 1, n), pos |-> <<>>, batch |-> <<>>]]
    /\ pc' = [pc EXCEPT ![t] = "p_batch_loop"]
    /\ ret' = NoRet
    /\ UNCHANGED <<backend, position, kv, events, seq, tx, mu, acks, subscriptions, lastSub, cfg, tm, stores, disk>>

\* SaveBatch, one round of the loop: position := s.position.Add(1);
\* event.Position = position; json.Marshal(event); batch.Set(eventKey(position), data).
PebbleBatchAdd(t) ==
    /\ backend = "pebble" /\ pc[t] = "p_batch_loop"
    /\ \E bad \in BOOLEAN :
        LET p == positionAdd(position)
            i == Len(loc[t].pos) + 1
            e == loc[t].ids[i]
            pos == Append(loc[t].pos, p)
        IN  /\ position' = p
            /\ IF bad
               THEN /\ pc' = [pc EXCEPT ![t] = "idle"]
                    /\ loc' = [loc EXCEPT ![t] = NoLoc]
                    /\ ret' = WriteReturn("SaveBatch", FALSE, loc[t].p0,
                                          loc[t].ids, pos)
               ELSE /\ pc' = [pc EXCEPT ![t] =
                          IF i = Len(loc[t].ids) THEN "p_batch_commit" ELSE "p_batch_loop"]
                    /\ loc' = [loc EXCEPT ![t].pos = pos,
                          ![t].batch = Append(@, <<eventKey(p), StoredEvent(p, e)>>)]
                    /\ ret' = NoRet
    /\ UNCHANGED <<backend, kv, events, seq, tx, mu, nextId, acks, subscriptions, lastSub, cfg, tm, stores, disk>>

\* A commit that leaves only the keys of the batch in the store.
ApplyBatchOnly(store, batch) ==
    [k \in {batch[i][1] : i \in 1..Len(batch)} |->
        batch[CHOOSE i \in 1..Len(batch) : batch[i][1] = k /\
                  \A j \in (i + 1)..Len(batch) : batch[j][1] # k][2]]

\* Applying a committed batch: every Set of the batch, in order.
RECURSIVE ApplyBatch(_, _)
ApplyBatch(store, batch) ==
    IF batch = <<>> THEN store
    ELSE ApplyBatch((Head(batch)[1] :> Head(batch)[2]) @@ store, Tail(batch))

\* SaveBatch: batch.Commit(pebble.NoSync), and the deferred batch.Close().
PebbleBatchCommit(t) ==
    /\ backend = "pebble" /\ pc[t] = "p_batch_commit"
    /\ \E ioerr \in BOOLEAN :
        /\ kv' = IF ioerr THEN kv ELSE ApplyBatch(kv, loc[t].batch)
        /\ ret' = WriteReturn("SaveBatch", ~ioerr, loc[t].p0,
                              loc[t].ids, loc[t].pos)
        /\ acks' = Ack("SaveBatch", ~ioerr, loc[t].ids, loc[t].pos)
    /\ pc' = [pc EXCEPT ![t] = "idle"]
    /\ loc' = [loc EXCEPT ![t] = NoLoc]
    /\ UNCHANGED <<backend, position, events, seq, tx, mu, nextId, subscriptions, lastSub, cfg, tm, stores, disk>>

\* ============================================================ SQLiteStore
\* Save: s.mu.Lock()
SQLiteSaveLock(t) ==
    /\ backend = "sqlite" /\ pc[t] = "idle" /\ nextId < MaxEvents
    /\ mu = 0
    /\ mu' = t
    /\ nextId' = nextId + 1
    /\ pc' = [pc EXCEPT ![t] = "s_save_exec"]
    /\ loc' = [loc EXCEPT ![t] =
          [op |-> "Save", p0 |-> positionStmt(events),
           ids |-> Payloads(nextId + 1, 1), pos |-> <<0>>]]
    /\ ret' = NoRet
    /\ UNCHANGED <<backend, position, kv, events, seq, tx, acks, subscriptions, lastSub, cfg, tm, stores, disk>>

\* Save: saveStmt.ExecContext, result.LastInsertId(), event.Position = position,
\* and the deferred s.mu.Unlock().
SQLiteSaveExec(t) ==
    /\ backend = "sqlite" /\ pc[t] = "s_save_exec"
    /\ \E fail \in BOOLEAN :
        LET p == NewRowid(events, seq)
            e == loc[t].ids[1]
            pos == IF fail THEN loc[t].pos ELSE <<p>>
        IN  /\ events' = IF fail THEN events ELSE events \cup {StoredEvent(p, e)}
            /\ seq' = IF fail THEN seq ELSE p
            /\ ret' = WriteReturn("Save", ~fail, loc[t].p0, loc[t].ids, pos)
            /\ acks' = Ack("Save", ~fail, loc[t].ids, pos)
    /\ mu' = 0
    /\ pc' = [pc EXCEPT ![t] = "idle"]
    /\ loc' = [loc EXCEPT ![t] = NoLoc]
    /\ UNCHANGED <<backend, position, kv, tx, nextId, subscriptions, lastSub, cfg, tm, stores, disk>>

\* SaveBatch: s.mu.Lock(); tx, err := s.db.BeginTx(ctx, nil); tx.StmtContext
SQLiteBatchLock(t) ==
    /\ backend = "sqlite" /\ pc[t] = "idle"
    /\ mu = 0
    /\ \E n \in 1..MaxBatch, fail \in BOOLEAN :
        /\ nextId + n <= MaxEvents
        /\ nextId' = nextId + n
        /\ IF fail
           THEN /\ UNCHANGED <<mu, tx, pc, loc>>
                /\ ret' = WriteReturn("SaveBatch", FALSE, positionStmt(events),
                                      Payloads(nextId + 1, n), [i \in 1..n |-> 0])
           ELSE /\ mu' = t
                /\ tx' = [active |-> TRUE, rows |-> {}, seq |-> seq]
                /\ pc' = [pc EXCEPT ![t] = "s_batch_loop"]
                /\ loc' = [loc EXCEPT ![t] =
                      [op |-> "SaveBatch", p0 |-> positionStmt(events),
                       ids |-> Payloads(nextId + 1, n), pos |-> <<>>]]
                /\ ret' = NoRet
    /\ UNCHANGED <<backend, position, kv, events, seq, acks, subscriptions, lastSub, cfg, tm, stores, disk>>

\* SaveBatch, one round of the loop: stmt.ExecContext inside the transaction,
\* result.LastInsertId(), event.Position = position; on an error the deferred
\* tx.Rollback() and s.mu.Unlock() run.
SQLiteBatchInsert(t) ==
    /\ backend = "sqlite" /\ pc[t] = "s_batch_loop"
    /\ \E fail \in BOOLEAN :
        LET p == NewRowid(events \cup tx.rows, tx.seq)
            i == Len(loc[t].pos) + 1
            e == loc[t].ids[i]
        IN  IF fail
            THEN /\ events' = Rollback(events, tx)
                 /\ tx' = NoTx
                 /\ mu' = 0
                 /\ pc' = [pc EXCEPT ![t] = "idle"]
                 /\ loc' = [loc EXCEPT ![t] = NoLoc]
                 /\ ret' = WriteReturn("SaveBatch", FALSE, loc[t].p0,
                                       loc[t].ids, loc[t].pos)
            ELSE /\ events' = events
                 /\ tx' = [tx EXCEPT !.rows = @ \cup {StoredEvent(p, e)}, !.seq = p]
                 /\ mu' = mu
                 /\ pc' = [pc EXCEPT ![t] =
                       IF i = Len(loc[t].ids) THEN "s_batch_commit" ELSE "s_batch_loop"]
                 /\ loc' = [loc EXCEPT ![t].pos = Append(@, p)]
                 /\ UNCHANGED ret
    /\ UNCHANGED <<backend, position, kv, seq, nextId, acks, subscriptions, lastSub, cfg, tm, stores, disk>>

\* SaveBatch: tx.Commit(), then the deferred tx.Rollback() and s.mu.Unlock().
SQLiteBatchCommit(t) ==
    /\ backend = "sqlite" /\ pc[t] = "s_batch_commit"
    /\ \E fail \in BOOLEAN :
        /\ events' = IF fail THEN Rollback(events, tx) ELSE events \cup tx.rows
        /\ seq' = IF fail THEN seq ELSE tx.seq
        /\ ret' = WriteReturn("SaveBatch", ~fail, loc[t].p0,
                              loc[t].ids, loc[t].pos)
        /\ acks' = Ack("SaveBatch", ~fail, loc[t].ids, loc[t].pos)
    /\ tx' = NoTx
    /\ mu' = 0
    /\ pc' = [pc EXCEPT ![t] = "idle"]
    /\ loc' = [loc EXCEPT ![t] = NoLoc]
    /\ UNCHANGED <<backend, position, kv, nextId, subscriptions, lastSub, cfg, tm, stores, disk>>

\* ================================================================= reads
\* GetPosition: an atomic load (Pebble); SELECT MAX(position) under RLock (SQLite).
GetPositionCall(t) ==
    /\ pc[t] = "idle"
    /\ backend = "sqlite" => mu = 0
    /\ ret' = [op |-> "GetPosition", ok |-> TRUE, value |-> GetPosition]
    /\ UNCHANGED <<backend, position, kv, events, seq, tx, mu, pc, loc, nextId, acks, subscriptions, lastSub, cfg, tm, stores, disk>>

\* Load: under RLock on SQLite; on Pebble the iterator reads the state of the
\* store as of its creation.
LoadCall(t, F, T) ==
    /\ pc[t] = "idle"
    /\ backend = "sqlite" => mu = 0
    /\ \E from \in F, to \in T :
        ret' = [op |-> "Load", ok |-> TRUE, from |-> from, to |-> to,
                events |-> LoadResult(from, to)]
    /\ UNCHANGED <<backend, position, kv, events, seq, tx, mu, pc, loc, nextId, acks, subscriptions, lastSub, cfg, tm, stores, disk>>

\* ========================================================= subscriptions
subscriptionPrefix == 2

\* The subscription ids the callers use, as the bytes of the string: "", "a".
SubIds == {<<>>, <<97>>}

\* The positions the callers save for a subscription.
SubPositions == {-1, 0, MaxArg}

\* A checkpoint key made with the prefix of the event keys.
subscriptionKeyAmongEvents(id) == <<eventPrefix>> \o id

\* subscriptionKey: the prefix byte followed by the bytes of the id.
subscriptionKey(id) == <<subscriptionPrefix>> \o id

\* binary.BigEndian.PutUint64(data, uint64(x))
PutUint64(x) == [i \in 1..8 |-> ByteOf(x, 8 - i)]

RECURSIVE BigEndian(_, _)
BigEndian(data, acc) ==
    IF data = <<>> THEN acc ELSE BigEndian(Tail(data), acc * 256 + Head(data))

\* int64(binary.BigEndian.Uint64(data)): the two's-complement reading.
Int64(data) ==
    IF data[1] >= 128
    THEN 0 - (BigEndian([i \in 1..Len(data) |-> 255 - data[i]], 0) + 1)
    ELSE BigEndian(data, 0)

\* saveSubStmt: INSERT OR REPLACE INTO subscriptions (subscription_id, position)
saveSubStmtIgnore(table, id, p) == table @@ (id :> p)

saveSubStmt(table, id, p) == (id :> p) @@ table

\* loadSubStmt: SELECT position FROM subscriptions WHERE subscription_id = ?
loadSubStmt(table, id) == IF id \in DOMAIN table THEN <<table[id]>> ELSE <<>>

SubReturn(op, ok, id, value) == [op |-> op, ok |-> ok, id |-> id, value |-> value]

\* What the callers know: a successful save of p for id.
Saved(ok, id, p) ==
    IF ok THEN (id :> [value |-> p, replaced |-> id \in DOMAIN lastSub]) @@ lastSub
    ELSE lastSub

\* PebbleStore.SaveSubscriptionPosition: s.db.Set(subscriptionKey(id), data, NoSync)
PebbleSaveSubscriptionPosition(t) ==
    /\ backend = "pebble" /\ pc[t] = "idle"
    /\ \E id \in SubIds, p \in SubPositions, ioerr \in BOOLEAN :
        /\ kv' = IF ioerr THEN kv ELSE (subscriptionKey(id) :> PutUint64(p)) @@ kv
        /\ ret' = SubReturn("SaveSubscriptionPosition", ~ioerr, id, p)
        /\ lastSub' = Saved(~ioerr, id, p)
    /\ UNCHANGED <<backend, position, events, seq, tx, mu, pc, loc, nextId, acks, subscriptions, cfg, tm, stores, disk>>

\* PebbleStore.LoadSubscriptionPosition: s.db.Get(subscriptionKey(id));
\* pebble.ErrNotFound gives 0, nil; a value that is not 8 bytes long an error.
PebbleLoadSubscriptionPosition(t) ==
    /\ backend = "pebble" /\ pc[t] = "idle"
    /\ \E id \in SubIds :
        LET key == subscriptionKey(id)
        IN  ret' = IF key \notin DOMAIN kv
                   THEN SubReturn("LoadSubscriptionPosition", TRUE, id, 0)
                   ELSE IF Len(kv[key]) # 8
                   THEN SubReturn("LoadSubscriptionPosition", FALSE, id, 0)
                   ELSE SubReturn("LoadSubscriptionPosition", TRUE, id, Int64(kv[key]))
    /\ UNCHANGED <<backend, position, kv, events, seq, tx, mu, pc, loc, nextId, acks, subscriptions, lastSub, cfg, tm, stores, disk>>

\* SQLiteStore.SaveSubscriptionPosition: s.mu.Lock(); saveSubStmt.ExecContext
SQLiteSaveSubscriptionPosition(t) ==
    /\ backend = "sqlite" /\ pc[t] = "idle"
    /\ mu = 0
    /\ \E id \in SubIds, p \in SubPositions, fail \in BOOLEAN :
        /\ subscriptions' = IF fail THEN subscriptions
                            ELSE saveSubStmt(subscriptions, id, p)
        /\ ret' = SubReturn("SaveSubscriptionPosition", ~fail, id, p)
        /\ lastSub' = Saved(~fail, id, p)
    /\ UNCHANGED <<backend, position, kv, events, seq, tx, mu, pc, loc, nextId, acks, cfg, tm, stores, disk>>

\* SQLiteStore.LoadSubscriptionPosition: s.mu.RLock(); loadSubStmt.QueryRowContext;
\* sql.ErrNoRows gives 0, nil.
SQLiteLoadSubscriptionPosition(t) ==
    /\ backend = "sqlite" /\ pc[t] = "idle"
    /\ mu = 0
    /\ \E id \in SubIds :
        LET rows == loadSubStmt(subscriptions, id)
        IN  ret' = SubReturn("LoadSubscriptionPosition", TRUE, id,
                             IF rows = <<>> THEN 0 ELSE rows[1])
    /\ UNCHANGED <<backend, position, kv, events, seq, tx, mu, pc, loc, nextId, acks, subscriptions, lastSub, cfg, tm, stores, disk>>

\* The calls of thread t on the subscription checkpoints.
SubStep(t) ==
    \/ PebbleSaveSubscriptionPosition(t)
    \/ PebbleLoadSubscriptionPosition(t)
    \/ SQLiteSaveSubscriptionPosition(t)
    \/ SQLiteLoadSubscriptionPosition(t)

\* ---------------------------------------------------------------- errors
\* An error value is the chain of its messages, outermost first: fmt.Errorf
\* with %w puts a message in front of the error it wraps.
NoError == <<>>

\* fmt.Errorf with %v: the message of err is kept, the error itself is not.
WrapFlat(msg, err) == <<msg>>

Wrap(msg, err) == <<msg>> \o err

\* ctx.Err() of a cancelled context.
ctxErr == <<"context canceled">>

\* The error a handler returns.
handlerErr == <<"handler error">>

\* errors.Is(err, e): e is err or is wrapped in it.
Carries(err, e) == \E i \in 1..Len(err) : SubSeq(err, i, Len(err)) = e

\* ------------------------------------------------------------ LoadStream
\* The locals of a LoadStream call: the batches handed to handler so far
\* (out), what handler returned on each (herrs: TRUE for an error) and whether
\* ctx was already cancelled when it was invoked (late).
StreamLocals(from, k) ==
    [op |-> "LoadStream", from |-> from, batchSize |-> k, batch |-> <<>>,
     out |-> <<>>, herrs |-> <<>>, late |-> <<>>, cancelled |-> FALSE]

\* handler(batch), returning an error iff herr.
Invoke(l, batch, herr) ==
    [l EXCEPT !.out = Append(@, batch), !.herrs = Append(@, herr),
              !.late = Append(@, l.cancelled)]

\* "case <-ctx.Done()": the ctx of the call is cancelled.
ctxDoneNever(l) == FALSE

ctxDone(l) == l.cancelled

StreamReturn(l, err) ==
    [op |-> "LoadStream", ok |-> err = NoError, err |-> err, from |-> l.from,
     batchSize |-> l.batchSize, out |-> l.out, herrs |-> l.herrs,
     late |-> l.late, cancelled |-> l.cancelled]

\* PebbleStore.LoadStream: s.db.NewIter(LowerBound: eventKey(from),
\* UpperBound: []byte{eventPrefix + 1}); batch := make(..., 0, batchSize)
PebbleStreamOpen(t) ==
    /\ backend = "pebble" /\ pc[t] = "idle"
    /\ \E from \in FromVals, k \in BatchSizes :
        loc' = [loc EXCEPT ![t] =
            [iter |-> IterScan(kv, eventKey(from), eventRangeEnd)] @@ StreamLocals(from, k)]
    /\ pc' = [pc EXCEPT ![t] = "p_stream_loop"]
    /\ ret' = NoRet
    /\ UNCHANGED <<backend, position, kv, events, seq, tx, mu, nextId, acks, subscriptions, lastSub, cfg, tm, stores, disk>>

\* The loop "for iter.First(); iter.Valid(); iter.Next()" run up to the point
\* where len(batch) >= batchSize, or to the end of the iterator.
RECURSIVE PebbleFill(_, _, _)
PebbleFill(iter, batch, k) ==
    IF iter = <<>> THEN [iter |-> iter, batch |-> batch, full |-> FALSE]
    ELSE LET b == Append(batch, Head(iter))
         IN  IF Len(b) >= k THEN [iter |-> Tail(iter), batch |-> b, full |-> TRUE]
             ELSE PebbleFill(Tail(iter), b, k)

\* The rounds of the loop up to the next call of handler: each round first
\* selects on ctx.Done() and returns ctx.Err(); a cancellation that arrives
\* after the check of the round that fills the batch is met by the step after.
PebbleStreamNext(t) ==
    /\ backend = "pebble" /\ pc[t] = "p_stream_loop"
    /\ LET l == loc[t]
           f == PebbleFill(l.iter, l.batch, l.batchSize)
       IN  IF l.iter # <<>> /\ ctxDone(l)
           THEN /\ loc' = [loc EXCEPT ![t] = NoLoc]
                /\ pc' = [pc EXCEPT ![t] = "idle"]
                /\ ret' = StreamReturn(l, ctxErr)
           ELSE /\ loc' = [loc EXCEPT ![t].iter = f.iter, ![t].batch = f.batch]
                /\ pc' = [pc EXCEPT ![t] =
                      IF f.full THEN "p_stream_handler" ELSE "p_stream_rest"]
                /\ ret' = ret
    /\ UNCHANGED <<backend, position, kv, events, seq, tx, mu, nextId, acks, subscriptions, lastSub, cfg, tm, stores, disk>>

\* Inside the loop: if err := handler(batch); err != nil { return err };
\* batch = batch[:0]
PebbleStreamHandler(t, H) ==
    /\ backend = "pebble" /\ pc[t] = "p_stream_handler"
    /\ \E herr \in H :
        LET l == Invoke(loc[t], loc[t].batch, herr)
        IN  IF herr
            THEN /\ loc' = [loc EXCEPT ![t] = NoLoc]
                 /\ pc' = [pc EXCEPT ![t] = "idle"]
                 /\ ret' = StreamReturn(l, handlerErr)
            ELSE /\ loc' = [loc EXCEPT ![t] = [l EXCEPT !.batch = <<>>]]
                 /\ pc' = [pc EXCEPT ![t] = "p_stream_loop"]
                 /\ ret' = ret
    /\ UNCHANGED <<backend, position, kv, events, seq, tx, mu, nextId, acks, subscriptions, lastSub, cfg, tm, stores, disk>>

\* After the loop: "if len(batch) > 0 { handler(batch) }", the batches handed
\* to handler so far being out.
RemainingDropped(out, batch) == out

Remaining(out, batch) == IF Len(batch) > 0 THEN Append(out, batch) ELSE out

\* After the loop: the remaining events go to handler, whose error is
\* returned as it is; else return iter.Error().
PebbleStreamRest(t, H) ==
    /\ backend = "pebble" /\ pc[t] = "p_stream_rest"
    /\ LET called == Remaining(loc[t].out, loc[t].batch) # loc[t].out
       IN  \E herr \in (IF called THEN H ELSE {FALSE}) :
               LET l == IF called THEN Invoke(loc[t], loc[t].batch, herr) ELSE loc[t]
               IN  ret' = StreamReturn(l, IF herr THEN handlerErr ELSE NoError)
    /\ loc' = [loc EXCEPT ![t] = NoLoc]
    /\ pc' = [pc EXCEPT ![t] = "idle"]
    /\ UNCHANGED <<backend, position, kv, events, seq, tx, mu, nextId, acks, subscriptions, lastSub, cfg, tm, stores, disk>>

\* SQLiteStore.LoadStream(ctx, from, k, handler) with from of F and k of K:
\* if batchSize <= 0 { batchSize = 1000 }; position := from
SQLiteStreamCall(t, F, K) ==
    /\ backend = "sqlite" /\ pc[t] = "idle"
    /\ \E from \in F, k \in K :
        loc' = [loc EXCEPT ![t] =
            [position |-> from, rows |-> <<>>] @@
            StreamLocals(from, IF k <= 0 THEN DefaultBatchSize ELSE k)]
    /\ pc' = [pc EXCEPT ![t] = "s_stream_query"]
    /\ ret' = NoRet
    /\ UNCHANGED <<backend, position, kv, events, seq, tx, mu, nextId, acks, subscriptions, lastSub, cfg, tm, stores, disk>>

SQLiteStreamBegin(t) == SQLiteStreamCall(t, FromVals, BatchSizes)

\* s.mu.RLock(); rows, err := s.loadStmt.QueryContext(ctx, position, batchSize);
\* s.mu.RUnlock(); a cancelled ctx makes QueryContext return ctx.Err(), which
\* is returned wrapped.
SQLiteStreamQuery(t) ==
    /\ backend = "sqlite" /\ pc[t] = "s_stream_query"
    /\ mu = 0
    /\ LET l == loc[t]
       IN  IF ctxDone(l)
           THEN /\ loc' = [loc EXCEPT ![t] = NoLoc]
                /\ pc' = [pc EXCEPT ![t] = "idle"]
                /\ ret' = StreamReturn(l, Wrap("query events", ctxErr))
           ELSE /\ loc' = [loc EXCEPT ![t].rows =
                                loadStmt(events, l.position, l.batchSize)]
                /\ pc' = [pc EXCEPT ![t] = "s_stream_rows"]
                /\ ret' = ret
    /\ UNCHANGED <<backend, position, kv, events, seq, tx, mu, nextId, acks, subscriptions, lastSub, cfg, tm, stores, disk>>

\* "if len(batch) == 0 { break }": no handler call for an empty page.
EndOfRowsNever(batch) == FALSE

EndOfRows(batch) == Len(batch) = 0

\* The rows are scanned into batch (rows.Next, rows.Scan, rows.Close,
\* rows.Err); a ctx cancelled meanwhile closes the rows with ctx.Err(), if
\* the scan has not finished before (seen); an empty batch ends the stream.
SQLiteStreamScan(t) ==
    /\ backend = "sqlite" /\ pc[t] = "s_stream_rows"
    /\ LET l == loc[t]
       IN  \E seen \in (IF ctxDone(l) THEN BOOLEAN ELSE {FALSE}) :
               IF seen \/ EndOfRows(l.rows)
               THEN /\ loc' = [loc EXCEPT ![t] = NoLoc]
                    /\ pc' = [pc EXCEPT ![t] = "idle"]
                    /\ ret' = StreamReturn(l, IF seen THEN Wrap("iterate events", ctxErr)
                                              ELSE NoError)
               ELSE /\ loc' = [loc EXCEPT ![t].batch = l.rows, ![t].rows = <<>>]
                    /\ pc' = [pc EXCEPT ![t] = "s_stream_handler"]
                    /\ ret' = ret
    /\ UNCHANGED <<backend, position, kv, events, seq, tx, mu, nextId, acks, subscriptions, lastSub, cfg, tm, stores, disk>>

\* if err := handler(batch); err != nil { return fmt.Errorf("handle batch: %w", err) };
\* a batch shorter than batchSize ends the stream; else
\* position = batch[len(batch)-1].Position + 1.
SQLiteStreamDeliver(t, H) ==
    /\ backend = "sqlite" /\ pc[t] = "s_stream_handler"
    /\ \E herr \in H :
        LET batch == loc[t].batch
            l == Invoke(loc[t], batch, herr)
        IN  IF herr \/ Len(batch) < l.batchSize
            THEN /\ loc' = [loc EXCEPT ![t] = NoLoc]
                 /\ pc' = [pc EXCEPT ![t] = "idle"]
                 /\ ret' = StreamReturn(l, IF herr THEN Wrap("handle batch", handlerErr)
                                           ELSE NoError)
            ELSE /\ loc' = [loc EXCEPT ![t] =
                       [l EXCEPT !.position = batch[Len(batch)].position + 1,
                                 !.batch = <<>>]]
                 /\ pc' = [pc EXCEPT ![t] = "s_stream_query"]
                 /\ ret' = ret
    /\ UNCHANGED <<backend, position, kv, events, seq, tx, mu, nextId, acks, subscriptions, lastSub, cfg, tm, stores, disk>>

StreamPcs == {"p_stream_loop", "p_stream_handler", "p_stream_rest",
              "s_stream_query", "s_stream_rows", "s_stream_handler"}

\* The caller cancels the ctx it passed to the LoadStream that thread t runs.
Cancel(t) ==
    /\ pc[t] \in StreamPcs
    /\ ~loc[t].cancelled
    /\ loc' = [loc EXCEPT ![t].cancelled = TRUE]
    /\ UNCHANGED <<backend, position, kv, events, seq, tx, mu, pc, ret, nextId, acks, subscriptions, lastSub, cfg, tm, stores, disk>>

\* The steps of thread t in Save and in SaveBatch of at least one event.
WriteStep(t) ==
    \/ PebbleSaveAdd(t)
    \/ PebbleSaveSet(t)
    \/ SQLiteSaveLock(t)
    \/ SQLiteSaveExec(t)
    \/ PebbleBatchBegin(t)
    \/ PebbleBatchAdd(t)
    \/ PebbleBatchCommit(t)
    \/ SQLiteBatchLock(t)
    \/ SQLiteBatchInsert(t)
    \/ SQLiteBatchCommit(t)

\* The steps of thread t in LoadStream, the handler returning an error iff
\* the chosen element of H is TRUE.
StreamStep(t, H) ==
    \/ PebbleStreamOpen(t)
    \/ PebbleStreamNext(t)
    \/ PebbleStreamHandler(t, H)
    \/ PebbleStreamRest(t, H)
    \/ SQLiteStreamBegin(t)
    \/ SQLiteStreamQuery(t)
    \/ SQLiteStreamScan(t)
    \/ SQLiteStreamDeliver(t, H)

\* Request threads calling into one store concurrently; the readers among
\* them load the whole log.
Next ==
    \E t \in Threads :
        \/ WriteStep(t)
        \/ LoadCall(t, {1}, {MaxEvents})

Spec == Init /\ [][Next]_vars

\* One caller making every call of the interface one after the other, the
\* reads with every argument of FromVals, ToVals and BatchSizes.
Caller == CHOOSE t \in Threads : TRUE

NextSeq ==
    \/ WriteStep(Caller)
    \/ SaveBatchEmpty(Caller)
    \/ GetPositionCall(Caller)
    \/ LoadCall(Caller, FromVals, ToVals)
    \/ StreamStep(Caller, {FALSE})

SpecSeq == Init /\ [][NextSeq]_vars

\* One caller that writes and streams, with a handler that may fail and a
\* ctx that may be cancelled while the stream runs.
NextStream ==
    \/ WriteStep(Caller)
    \/ StreamStep(Caller, BOOLEAN)
    \/ Cancel(Caller)

SpecStream == Init /\ [][NextStream]_vars

\* One caller that saves events and saves and loads subscription checkpoints.
NextSub ==
    \/ WriteStep(Caller)
    \/ SaveBatchEmpty(Caller)
    \/ SubStep(Caller)

SpecSub == Init /\ [][NextSub]_vars

\* ------------------------------------------------- opening an LSM store
\* A counter that starts at zero whatever the store holds.
initializePositionZero(store) == 0

\* initializePosition: NewIter over [eventPrefix, eventPrefix + 1), iter.Last();
\* the counter is the position decoded from key[1:] of the last event key if
\* that key has at least 9 bytes, and stays 0 otherwise or without events.
initializePosition(store) ==
    LET K == {k \in DOMAIN store : ~KeyLess(k, <<eventPrefix>>) /\ KeyLess(k, eventRangeEnd)}
        last == CHOOSE k \in K : \A y \in K : y = k \/ KeyLess(y, k)
    IN  IF K = {} THEN 0
        ELSE IF Len(last) >= 9 THEN Int64(SubSeq(last, 2, 9)) ELSE 0

\* s.Close() followed by NewPebbleStore on the same path, with no call in
\* flight: the data stays, the counter is set by initializePosition.
PebbleReopen(t) ==
    /\ backend = "pebble"
    /\ \A u \in Threads : pc[u] = "idle"
    /\ position' = initializePosition(kv)
    /\ ret' = [op |-> "Reopen", ok |-> TRUE, before |-> position,
               value |-> initializePosition(kv)]
    /\ UNCHANGED <<backend, kv, events, seq, tx, mu, pc, loc, nextId, acks, subscriptions, lastSub, cfg, tm, stores, disk>>

\* The steps of thread t in Save and SaveBatch of the LSM store.
PebbleWriteStep(t) ==
    \/ PebbleSaveAdd(t)
    \/ PebbleSaveSet(t)
    \/ PebbleBatchBegin(t)
    \/ PebbleBatchAdd(t)
    \/ PebbleBatchCommit(t)

\* One caller of an LSM store that writes, asks for the position, and closes
\* and re-opens the store between calls.
InitReopen == Init /\ backend = "pebble"

NextReopen ==
    \/ PebbleWriteStep(Caller)
    \/ GetPositionCall(Caller)
    \/ PebbleReopen(Caller)

SpecReopen == InitReopen /\ [][NextReopen]_vars

\* --------------------------------------------------------- a large store
\* How many events beyond the limit of an open-ended Load a store holds.
CapSlack == 6

\* The payload of the i-th event of a store filled before the calls observed.
Filled(n) == {StoredEvent(p, [first |-> 0, n |-> n, i |-> p]) : p \in 1..n}

\* A relational store that holds about as many events as the limit of an
\* open-ended Load, each saved by a Save of its own.
InitCap ==
    /\ backend = "sqlite"
    /\ \E n \in (DefaultLoadLimit - 1)..(DefaultLoadLimit + CapSlack) :
        /\ events = Filled(n)
        /\ seq = n
    /\ position = 0 /\ kv = <<>> /\ tx = NoTx /\ mu = 0
    /\ pc = [t \in Threads |-> "idle"] /\ loc = [t \in Threads |-> NoLoc]
    /\ ret = NoRet /\ nextId = 0 /\ acks = {}
    /\ subscriptions = <<>> /\ lastSub = <<>>
    /\ cfg = NoCfg /\ tm = NoTm /\ stores = <<>> /\ disk = <<>>

\* One caller loading from the large store: open-ended from its first or
\* second event, and up to a position near its beginning.
NextCap ==
    \/ LoadCall(Caller, {1, 2}, {-1})
    \/ LoadCall(Caller, FromVals, {0, MaxArg})

SpecCap == InitCap /\ [][NextCap]_vars

\* One caller streaming from the large store: from its first event with a
\* batch size above the one the HTTP handler lets through, and from its last
\* events with batch sizes that are not positive.
NextBig ==
    \/ SQLiteStreamCall(Caller, {1}, {MaxStreamBatch + 1})
    \/ SQLiteStreamCall(Caller, {DefaultLoadLimit}, {0, -1})
    \/ SQLiteStreamQuery(Caller)
    \/ SQLiteStreamScan(Caller)
    \/ SQLiteStreamDeliver(Caller, {FALSE})

SpecBig == InitCap /\ [][NextBig]_vars

\* ===================================================== the LSM key space
\* Positions around the byte boundaries of the encoding, up to the largest
\* integer TLC holds.
KeyPositions == {0, 1, 2, 255, 256, 257, 65535, 65536, 16777216, 2147483647}

\* bytes.Compare(eventKey(a), eventKey(b)) < 0 for two positions; the
\* comparison reads nothing of the store and is made on the store as opened.
KeyCompare(t) ==
    /\ backend = "pebble" /\ pc[t] = "idle"
    /\ kv = <<>> /\ position = 0
    /\ \E a \in KeyPositions, b \in KeyPositions :
        ret' = [op |-> "eventKey", a |-> a, b |-> b,
                less |-> KeyLess(eventKey(a), eventKey(b))]
    /\ UNCHANGED <<backend, position, kv, events, seq, tx, mu, pc, loc, nextId, acks, subscriptions, lastSub, cfg, tm, stores, disk>>

\* One caller of an LSM store that saves events and checkpoints, loads, and
\* closes and re-opens the store.
NextKeys ==
    \/ KeyCompare(Caller)
    \/ PebbleSaveAdd(Caller)
    \/ PebbleSaveSet(Caller)
    \/ PebbleSaveSubscriptionPosition(Caller)
    \/ LoadCall(Caller, {0, 1}, {MaxArg})
    \/ PebbleReopen(Caller)

SpecKeys == InitReopen /\ [][NextKeys]_vars

\* ============================================== the reader/writer lock
\* SQLiteStore.mu with its two sides apart: mu is the holder of the exclusive
\* side, Readers the holders of the shared side, Waiting the callers blocked
\* in s.mu.Lock().
ReadersWholeScan ==
    {t \in Threads : pc[t] \in {"s_stream_locked", "s_stream_rows", "s_stream_handler"}}

\* LoadStream holds the shared side from s.mu.RLock() to s.mu.RUnlock(), the
\* statement after QueryContext.
Readers == {t \in Threads : pc[t] = "s_stream_locked"}

Waiting == {t \in Threads : pc[t] = "s_save_wait"}

\* The thread that streams is Caller; Writer is a thread that saves.
Writer == CHOOSE t \in Threads : t # Caller

\* Save is called: the caller reaches s.mu.Lock().
LockSaveCall(t) ==
    /\ backend = "sqlite" /\ pc[t] = "idle" /\ nextId < MaxEvents
    /\ nextId' = nextId + 1
    /\ pc' = [pc EXCEPT ![t] = "s_save_wait"]
    /\ loc' = [loc EXCEPT ![t] =
          [op |-> "Save", p0 |-> positionStmt(events),
           ids |-> Payloads(nextId + 1, 1), pos |-> <<0>>]]
    /\ ret' = NoRet
    /\ UNCHANGED <<backend, position, kv, events, seq, tx, mu, acks, subscriptions, lastSub, cfg, tm, stores, disk>>

\* s.mu.Lock() returns: nobody holds either side.
LockSaveLock(t) ==
    /\ backend = "sqlite" /\ pc[t] = "s_save_wait"
    /\ mu = 0 /\ Readers = {}
    /\ mu' = t
    /\ pc' = [pc EXCEPT ![t] = "s_save_exec"]
    /\ UNCHANGED <<backend, position, kv, events, seq, tx, loc, ret, nextId, acks, subscriptions, lastSub, cfg, tm, stores, disk>>

\* LoadStream, s.mu.RLock(): the shared side is granted when no writer holds
\* the lock and none is blocked in Lock (sync.RWMutex).
LockStreamRLock(t) ==
    /\ backend = "sqlite" /\ pc[t] = "s_stream_query"
    /\ mu = 0 /\ Waiting = {}
    /\ pc' = [pc EXCEPT ![t] = "s_stream_locked"]
    /\ UNCHANGED <<backend, position, kv, events, seq, tx, mu, loc, ret, nextId, acks, subscriptions, lastSub, cfg, tm, stores, disk>>

\* rows, err := s.loadStmt.QueryContext(ctx, position, batchSize); s.mu.RUnlock()
LockStreamQuery(t) ==
    /\ backend = "sqlite" /\ pc[t] = "s_stream_locked"
    /\ LET l == loc[t]
       IN  IF ctxDone(l)
           THEN /\ loc' = [loc EXCEPT ![t] = NoLoc]
                /\ pc' = [pc EXCEPT ![t] = "idle"]
                /\ ret' = StreamReturn(l, Wrap("query events", ctxErr))
           ELSE /\ loc' = [loc EXCEPT ![t].rows =
                                loadStmt(events, l.position, l.batchSize)]
                /\ pc' = [pc EXCEPT ![t] = "s_stream_rows"]
                /\ ret' = ret
    /\ UNCHANGED <<backend, position, kv, events, seq, tx, mu, nextId, acks, subscriptions, lastSub, cfg, tm, stores, disk>>

InitLock == Init /\ backend = "sqlite"

\* One thread saving while another streams the log from its start.
NextLock ==
    \/ LockSaveCall(Writer)
    \/ LockSaveLock(Writer)
    \/ SQLiteSaveExec(Writer)
    \/ SQLiteStreamCall(Caller, {1}, BatchSizes)
    \/ LockStreamRLock(Caller)
    \/ LockStreamQuery(Caller)
    \/ SQLiteStreamScan(Caller)
    \/ SQLiteStreamDeliver(Caller, {FALSE})

SpecLock == InitLock /\ [][NextLock]_vars

\* The steps of the store run on: a Save that can take the lock takes it and
\* executes, and a stream that holds the shared side queries and releases it.
\* Nothing makes the handler of the stream return.
SpecLockFair ==
    /\ SpecLock
    /\ WF_vars(LockSaveLock(Writer))
    /\ WF_vars(SQLiteSaveExec(Writer))
    /\ WF_vars(LockStreamQuery(Caller))

\* ------------------------------------------------ a stream beside a writer
\* One thread saving events, singly and in batches, while another streams
\* the log with a handler that returns nil.
NextScan ==
    \/ WriteStep(Writer)
    \/ StreamStep(Caller, {FALSE})

SpecScan == Init /\ [][NextScan]_vars

\* ------------------------------------------ a stream that follows a writer
\* SQLiteStore.LoadStream, from the return of QueryContext on: handler(batch)
\* returns nil; a batch shorter than batchSize ends the stream; else
\* position = batch[len(batch)-1].Position + 1. The store is then numbered
\* anew from the cursor of the stream: every position is lowered by the last
\* one handed over, and the rows handed over and the record of the calls that
\* have returned are dropped. "position >= ?", ORDER BY, LIMIT, MAX(position)
\* and AUTOINCREMENT do on the store numbered anew what they do on the store,
\* so the calls go on as they would, over finitely many states.
TailDeliver(t) ==
    /\ backend = "sqlite" /\ pc[t] = "s_stream_handler"
    /\ LET batch == loc[t].batch
           l == Invoke(loc[t], batch, FALSE)
           d == batch[Len(batch)].position
           rest == {r \in events : r.position > d}
           kept == {StoredEvent(r.position - d, Payloads(r.position - d, 1)[1]) : r \in rest}
       IN  IF Len(batch) < l.batchSize
           THEN /\ loc' = [loc EXCEPT ![t] = NoLoc]
                /\ pc' = [pc EXCEPT ![t] = "idle"]
                /\ ret' = StreamReturn(l, NoError)
                /\ UNCHANGED <<events, seq, nextId, acks>>
           ELSE /\ loc' = [loc EXCEPT ![t] =
                      [position |-> 1, rows |-> <<>>] @@ StreamLocals(l.from, l.batchSize)]
                /\ pc' = [pc EXCEPT ![t] = "s_stream_query"]
                /\ events' = kept
                /\ seq' = seq - d
                /\ nextId' = Cardinality(kept)
                              + Cardinality({u \in Threads : pc[u] = "s_save_exec"})
                /\ acks' = {}
                /\ ret' = ret
    /\ UNCHANGED <<backend, position, kv, tx, mu, subscriptions, lastSub, cfg, tm, stores, disk>>

\* One thread that keeps saving while another streams the log from its start.
NextTail ==
    \/ SQLiteSaveLock(Writer)
    \/ SQLiteSaveExec(Writer)
    \/ SQLiteStreamCall(Caller, {1}, BatchSizes)
    \/ SQLiteStreamQuery(Caller)
    \/ SQLiteStreamScan(Caller)
    \/ TailDeliver(Caller)

\* The writer goes on saving as long as it may, every statement of the
\* stream is executed, and the handler returns.
SpecTail ==
    /\ InitLock /\ [][NextTail]_vars
    /\ WF_vars(SQLiteSaveLock(Writer))
    /\ WF_vars(SQLiteSaveExec(Writer))
    /\ WF_vars(SQLiteStreamQuery(Caller))
    /\ WF_vars(SQLiteStreamScan(Caller))
    /\ WF_vars(TailDeliver(Caller))

\* ------------------------------------------- a handler that writes back
\* The steps at which LoadStream is inside handler(batch) with the loop to
\* go on.
HandlerPcs == {"s_stream_handler", "p_stream_handler"}

\* handler(batch) calls Save(e) on the store it is streaming from, and the
\* call returns: s.mu.Lock() is granted when nobody holds either side of the
\* lock (SQLite); the LSM store takes no lock.
HandlerSave(t) ==
    /\ pc[t] \in HandlerPcs /\ nextId < MaxEvents
    /\ backend = "sqlite" => (mu = 0 /\ Readers = {})
    /\ \E fail \in BOOLEAN :
        LET p == IF backend = "pebble" THEN positionAdd(position)
                 ELSE NewRowid(events, seq)
            ids == Payloads(nextId + 1, 1)
            row == StoredEvent(p, ids[1])
        IN  /\ position' = IF backend = "pebble" THEN p ELSE position
            /\ kv' = IF backend = "pebble" /\ ~fail THEN (eventKey(p) :> row) @@ kv ELSE kv
            /\ events' = IF backend = "sqlite" /\ ~fail THEN events \cup {row} ELSE events
            /\ seq' = IF backend = "sqlite" /\ ~fail THEN p ELSE seq
            /\ acks' = Ack("Save", ~fail, ids, <<p>>)
            /\ ret' = WriteReturn("Save", ~fail, GetPosition, ids, <<p>>)
    /\ nextId' = nextId + 1
    /\ UNCHANGED <<backend, tx, mu, pc, loc, subscriptions, lastSub, cfg, tm, stores, disk>>

\* The subscription the handler keeps a checkpoint for: "a".
HandlerSubId == <<97>>

\* handler(batch) calls SaveSubscriptionPosition(id, p) with the position of
\* the last event of the batch, and the call returns.
HandlerSaveSubscriptionPosition(t) ==
    /\ pc[t] \in HandlerPcs
    /\ backend = "sqlite" => (mu = 0 /\ Readers = {})
    /\ LET id == HandlerSubId
           p == loc[t].batch[Len(loc[t].batch)].position
       IN  /\ kv' = IF backend = "pebble"
                    THEN (subscriptionKey(id) :> PutUint64(p)) @@ kv ELSE kv
           /\ subscriptions' = IF backend = "sqlite"
                               THEN saveSubStmt(subscriptions, id, p) ELSE subscriptions
           /\ lastSub' = Saved(TRUE, id, p)
           /\ ret' = SubReturn("SaveSubscriptionPosition", TRUE, id, p)
    /\ UNCHANGED <<backend, position, events, seq, tx, mu, pc, loc, nextId, acks, cfg, tm, stores, disk>>

\* One caller that saves events and streams them with a handler that saves
\* events and checkpoints on the same store.
NextReentrant ==
    \/ PebbleSaveAdd(Caller)
    \/ PebbleSaveSet(Caller)
    \/ SQLiteSaveLock(Caller)
    \/ SQLiteSaveExec(Caller)
    \/ PebbleStreamOpen(Caller)
    \/ PebbleStreamNext(Caller)
    \/ PebbleStreamHandler(Caller, {FALSE})
    \/ PebbleStreamRest(Caller, {FALSE})
    \/ SQLiteStreamCall(Caller, {1}, BatchSizes)
    \/ LockStreamRLock(Caller)
    \/ LockStreamQuery(Caller)
    \/ SQLiteStreamScan(Caller)
    \/ SQLiteStreamDeliver(Caller, {FALSE})
    \/ HandlerSave(Caller)
    \/ HandlerSaveSubscriptionPosition(Caller)

SpecReentrant == Init /\ [][NextReentrant]_vars

\* ------------------------------------------------- Load from below the log
\* The values of from at and below the first position.
LowFromVals == (-2)..1

\* One caller that writes and loads from at or below the first position up
\* to a position of the log.
NextFrom ==
    \/ WriteStep(Caller)
    \/ LoadCall(Caller, LowFromVals, 1..MaxArg)

SpecFrom == Init /\ [][NextFrom]_vars

\* ------------------------------------------------- the batch endpoint
\* The lengths of the lists posted to /events/batch.
BatchLens == {0, 1, 2, BatchLimit, BatchLimit + 1}

\* batch.Commit() of a batch that sets the n events ids under the keys of the
\* positions p0+1 .. p0+n, none of which the store holds.
CommitRows(p0, ids) ==
    LET keys == {eventKey(p0 + i) : i \in 1..Len(ids)}
    IN  [k \in DOMAIN kv \cup keys |->
            IF k \in keys
            THEN StoredEvent(Int64(SubSeq(k, 2, 9)), ids[Int64(SubSeq(k, 2, 9)) - p0])
            ELSE kv[k]]

\* batchEventsHandler / handleBatchEvents, a POST whose body decodes to a list
\* of n events: more than BatchLimit is answered 400; otherwise SaveBatch,
\* whose error is answered 500; otherwise the response is built from
\* events[0] and events[len(events)-1], an index out of range on the empty
\* list: the handler panics, net/http recovers the panic and closes the
\* connection with no response written (status 0).  The callers post at most
\* MaxEvents events in short lists and one list of BatchLimit events.
batchEventsHandler(t) ==
    /\ pc[t] = "idle"
    /\ backend = "sqlite" => mu = 0
    /\ \E n \in BatchLens, fail \in BOOLEAN :
        LET rejected == n > BatchLimit
            saves == ~rejected /\ n > 0
            p0 == IF backend = "pebble" THEN position
                  ELSE NewRowid(events, seq) - 1
            ids == Payloads(nextId + 1, n)
            rows == {StoredEvent(p0 + i, ids[i]) : i \in 1..n}
            ok == saves /\ ~fail
            panics == ~rejected /\ n = 0
        IN  /\ (saves /\ n < BatchLimit) => (nextId % BatchLimit) + n <= MaxEvents
            /\ (saves /\ n = BatchLimit) => nextId < BatchLimit
            /\ ~saves => ~fail
            /\ nextId' = IF saves THEN nextId + n ELSE nextId
            /\ position' = IF saves /\ backend = "pebble" THEN p0 + n ELSE position
            /\ kv' = IF ok /\ backend = "pebble" THEN CommitRows(p0, ids) ELSE kv
            /\ events' = IF ok /\ backend = "sqlite" THEN events \cup rows ELSE events
            /\ seq' = IF ok /\ backend = "sqlite" THEN p0 + n ELSE seq
            /\ acks' = IF saves
                       THEN Ack("SaveBatch", ~fail, ids, [i \in 1..n |-> p0 + i])
                       ELSE acks
            /\ ret' = [op |-> "batchEventsHandler", n |-> n,
                       status |-> IF rejected THEN 400
                                  ELSE IF panics THEN 0
                                  ELSE IF fail THEN 500 ELSE 200,
                       panic |-> panics,
                       saved |-> IF ok THEN n ELSE 0,
                       first_position |-> IF ok THEN p0 + 1 ELSE 0,
                       last_position |-> IF ok THEN p0 + n ELSE 0]
    /\ UNCHANGED <<backend, tx, mu, pc, loc, subscriptions, lastSub, cfg, tm, stores, disk>>

NextBatch == batchEventsHandler(Caller)

SpecBatch == Init /\ [][NextBatch]_vars

\* ======================================================== tenant registry
\* Everything of the single store under test, ret excepted.
storeVars == <<backend, position, kv, events, seq, tx, mu, pc, loc, nextId,
               subscriptions>>

\* Tenant names as the bytes of the string: "", "a", "b", "a/b" and a name of
\* MaxNameLen + 1 letters.
LongName == [i \in 1..(MaxNameLen + 1) |-> 97]

Names == {<<>>, <<97>>, <<98>>, <<97, 47, 98>>, LongName}

APIKeys == {"", "k1", "k2"}

\* The values of store_backend the callers pass.
Selectors == {"sqlite", "pebble", "", "mysql"}

TenantConfig == [Name : Names, APIKey : APIKeys]

TenantLists == UNION {[1..n -> TenantConfig] : n \in 0..MaxTenants}

\* TenantsConfig as NewTenantManager's callers build it.
Configs == [Tenants : TenantLists, DataDir : {"data"}, StoreBackend : Selectors]

\* validTenantName: ^[a-zA-Z0-9_-]+$
validTenantName(name) ==
    /\ Len(name) >= 1
    /\ \A i \in 1..Len(name) :
        \/ name[i] \in 97..122 \/ name[i] \in 65..90 \/ name[i] \in 48..57
        \/ name[i] = 95 \/ name[i] = 45

\* LoadTenantsConfig on a file that parses to config: no tenants is an error,
\* data_dir and store_backend get their defaults, any other store_backend
\* than the two supported ones is an error.
LoadTenantsConfig(config) ==
    LET dir == IF config.DataDir = "" THEN "data" ELSE config.DataDir
        be == IF config.StoreBackend = "" THEN "pebble" ELSE config.StoreBackend
    IN  IF Len(config.Tenants) = 0
        THEN [err |-> <<"no tenants configured">>, config |-> NoCfg]
        ELSE IF be # "sqlite" /\ be # "pebble"
        THEN [err |-> <<"invalid store_backend">>, config |-> NoCfg]
        ELSE [err |-> NoError,
              config |-> [config EXCEPT !.DataDir = dir, !.StoreBackend = be]]

\* The backend NewTenantManager takes for a selector: "sqlite", else Pebble.
BackendOf(selector) == IF selector = "sqlite" THEN "sqlite" ELSE "pebble"

\* filepath.Join(config.DataDir, name + ".db") for SQLite,
\* filepath.Join(config.DataDir, name) for Pebble.
dbPathShared(be, dir, name) == <<dir, IF be = "sqlite" THEN ".db" ELSE "">>

dbPath(be, dir, name) == <<dir, name, IF be = "sqlite" THEN ".db" ELSE "">>

EmptyDb == [kv |-> <<>>, events |-> {}, seq |-> 0, subscriptions |-> <<>>]

\* What the database at path holds; a path never opened holds nothing.
DiskAt(d, path) == IF path \in DOMAIN d THEN d[path] ELSE EmptyDb

\* NewSQLiteStore(path) / NewPebbleStore(path) with the instances of heap
\* alive: ioerr is a failure of the engine to open; pebble.Open takes the
\* lock of the directory and fails while another instance holds it; sql.Open
\* takes none.
OpenStore(be, path, heap, d, ioerr) ==
    IF ioerr THEN [err |-> <<"open database">>]
    ELSE IF be = "pebble" /\ \E h \in 1..Len(heap) :
                heap[h].path = path /\ heap[h].open /\ heap[h].backend = "pebble"
    THEN [err |-> <<"open pebble db", "lock held by current process">>]
    ELSE [err |-> NoError,
          store |-> [backend |-> be, path |-> path, open |-> TRUE, closeCalls |-> 0,
                     position |-> IF be = "pebble"
                                  THEN initializePosition(DiskAt(d, path).kv) ELSE 0]]

\* The loop of NewTenantManager from the i-th tenant on: tenants is
\* tm.tenants, heap the instances opened so far; the open of tenant failAt
\* fails in the engine.
RECURSIVE InitTenants(_, _, _, _, _, _)
InitTenants(config, i, tenants, heap, d, failAt) ==
    LET tenant == config.Tenants[i]
        be == BackendOf(config.StoreBackend)
        fail(e) == [err |-> e, tenants |-> tenants, heap |-> heap]
        opened == OpenStore(be, dbPath(be, config.DataDir, tenant.Name), heap, d,
                            i = failAt)
    IN  IF i > Len(config.Tenants) THEN fail(NoError)
        ELSE IF tenant.Name = <<>> THEN fail(<<"tenant name cannot be empty">>)
        ELSE IF ~validTenantName(tenant.Name) THEN fail(<<"invalid name">>)
        ELSE IF Len(tenant.Name) > MaxNameLen THEN fail(<<"name too long">>)
        ELSE IF tenant.APIKey = "" THEN fail(<<"API key cannot be empty">>)
        ELSE IF tenant.APIKey \in DOMAIN tenants THEN fail(<<"duplicate API key">>)
        ELSE IF opened.err # NoError THEN fail(Wrap("create store", opened.err))
        ELSE InitTenants(config, i + 1,
                 (tenant.APIKey :> [Name |-> tenant.Name, Store |-> Len(heap) + 1])
                     @@ tenants,
                 Append(heap, opened.store), d, failAt)

\* NewTenantManager(config): os.MkdirAll, then the loop; an error returns nil
\* for the manager.
NewTenantManager(config, heap, d, mkdirFails, failAt) ==
    LET r == InitTenants(config, 1, <<>>, heap, d, failAt)
    IN  IF mkdirFails
        THEN [err |-> <<"create data directory">>, tm |-> NoTm, heap |-> heap]
        ELSE [err |-> r.err, heap |-> r.heap,
              tm |-> IF r.err = NoError
                     THEN [built |-> TRUE, tenants |-> r.tenants,
                           dataDir |-> config.DataDir]
                     ELSE NoTm]

\* The errors of NewTenantManager that reject the configuration.
ConfigErrors == {<<"tenant name cannot be empty">>, <<"invalid name">>,
                 <<"name too long">>, <<"API key cannot be empty">>,
                 <<"duplicate API key">>, <<"invalid store_backend">>,
                 <<"no tenants configured">>}

\* A caller builds a TenantsConfig and calls NewTenantManager(config).
NewTenantManagerCall ==
    /\ cfg = NoCfg
    /\ \E config \in Configs, mkdirFails \in BOOLEAN, failAt \in 0..MaxTenants :
        LET r == NewTenantManager(config, stores, disk, mkdirFails, failAt)
        IN  /\ cfg' = config
            /\ tm' = r.tm
            /\ stores' = r.heap
            /\ ret' = [op |-> "NewTenantManager", ok |-> r.err = NoError,
                       err |-> r.err, loaded |-> FALSE]
    /\ UNCHANGED <<storeVars, acks, lastSub, disk>>

\* main: LoadTenantsConfig(configPath), then NewTenantManager(tenantsConfig).
ServerStart ==
    /\ cfg = NoCfg
    /\ \E config \in Configs, mkdirFails \in BOOLEAN, failAt \in 0..MaxTenants :
        LET l == LoadTenantsConfig(config)
            r == IF l.err # NoError
                 THEN [err |-> l.err, tm |-> NoTm, heap |-> stores]
                 ELSE NewTenantManager(l.config, stores, disk, mkdirFails, failAt)
        IN  /\ cfg' = config
            /\ tm' = r.tm
            /\ stores' = r.heap
            /\ ret' = [op |-> "NewTenantManager", ok |-> r.err = NoError,
                       err |-> r.err, loaded |-> TRUE]
    /\ UNCHANGED <<storeVars, acks, lastSub, disk>>

\* GetStore(apiKey) on the manager m: store, name, found.
GetStoreAny(m, apiKey) ==
    IF DOMAIN m.tenants = {} THEN [store |-> 0, name |-> <<>>, found |-> FALSE]
    ELSE LET k == CHOOSE x \in DOMAIN m.tenants : TRUE
         IN  [store |-> m.tenants[k].Store, name |-> m.tenants[k].Name, found |-> TRUE]

GetStore(m, apiKey) ==
    IF apiKey \notin DOMAIN m.tenants THEN [store |-> 0, name |-> <<>>, found |-> FALSE]
    ELSE [store |-> m.tenants[apiKey].Store, name |-> m.tenants[apiKey].Name,
          found |-> TRUE]

\* The api keys requests come with.
RequestKeys == APIKeys \cup {"other"}

GetStoreCall ==
    /\ tm # NoTm
    /\ \E apiKey \in RequestKeys :
        ret' = [op |-> "GetStore", key |-> apiKey] @@ GetStore(tm, apiKey)
    /\ UNCHANGED <<storeVars, acks, lastSub, cfg, tm, stores, disk>>

\* The orders in which "for _, tenant := range tm.tenants" may visit S.
Orders(S) ==
    {o \in [1..Cardinality(S) -> S] : \A i, j \in 1..Cardinality(S) : o[i] = o[j] => i = j}

\* The error of the Close of store instance h.
closeErr(h) == <<"close", h>>

\* The loop of TenantManager.Close over the tenants in order: the Close of
\* the instances of F fails; lastErr is the error kept so far.
RECURSIVE CloseAllStopping(_, _, _, _, _)
CloseAllStopping(tenants, order, F, heap, lastErr) ==
    IF order = <<>> \/ lastErr # NoError THEN [heap |-> heap, err |-> lastErr]
    ELSE LET h == tenants[Head(order)].Store
         IN  CloseAllStopping(tenants, Tail(order), F,
                 [heap EXCEPT ![h].closeCalls = @ + 1, ![h].open = h \in F],
                 IF h \in F THEN closeErr(h) ELSE lastErr)

RECURSIVE CloseAll(_, _, _, _, _)
CloseAll(tenants, order, F, heap, lastErr) ==
    IF order = <<>> THEN [heap |-> heap, err |-> lastErr]
    ELSE LET h == tenants[Head(order)].Store
         IN  CloseAll(tenants, Tail(order), F,
                 [heap EXCEPT ![h].closeCalls = @ + 1, ![h].open = h \in F],
                 IF h \in F THEN closeErr(h) ELSE lastErr)

\* The store instances the manager m holds.
Handles(m) == {m.tenants[k].Store : k \in DOMAIN m.tenants}

\* TenantManager.Close(), called once.
CloseCall ==
    /\ tm # NoTm
    /\ \A h \in Handles(tm) : stores[h].closeCalls = 0
    /\ \E order \in Orders(DOMAIN tm.tenants), F \in SUBSET Handles(tm) :
        LET r == CloseAll(tm.tenants, order, F, stores, NoError)
        IN  /\ stores' = r.heap
            /\ ret' = [op |-> "Close", ok |-> r.err = NoError, err |-> r.err,
                       order |-> order, failed |-> F]
    /\ UNCHANGED <<storeVars, acks, lastSub, cfg, tm, disk>>

\* The process before the registry is built; the single store of the other
\* specifications is not used.
InitReg == Init /\ backend = "pebble"

\* The registry is constructed, directly or through LoadTenantsConfig, looked
\* up and closed.
NextReg ==
    \/ NewTenantManagerCall
    \/ ServerStart
    \/ GetStoreCall
    \/ CloseCall

SpecReg == InitReg /\ [][NextReg]_vars

\* ------------------------------------------------ shutdown of the server
\* main in multi-tenant mode, after "defer tenantManager.Close()" and
\* "defer srv.Close()" have been registered: the signal arrives and
\* httpServer.Shutdown returns; the deferred calls then run last-in first-out.
MainShutdown ==
    /\ tm # NoTm /\ pc[Caller] = "idle"
    /\ pc' = [pc EXCEPT ![Caller] = "m_defer_srv"]
    /\ ret' = [op |-> "Shutdown"]
    /\ UNCHANGED <<backend, position, kv, events, seq, tx, mu, loc, nextId,
                   subscriptions, acks, lastSub, cfg, tm, stores, disk>>

\* One run of the loop of TenantManager.Close from main's deferred call at
\* the position at, which moves on to the position next.
MainClose(at, next, op) ==
    /\ pc[Caller] = at
    /\ \E order \in Orders(DOMAIN tm.tenants), F \in SUBSET Handles(tm) :
        LET r == CloseAll(tm.tenants, order, F, stores, NoError)
        IN  /\ stores' = r.heap
            /\ ret' = [op |-> op, ok |-> r.err = NoError, err |-> r.err,
                       order |-> order, failed |-> F]
    /\ pc' = [pc EXCEPT ![Caller] = next]
    /\ UNCHANGED <<backend, position, kv, events, seq, tx, mu, loc, nextId,
                   subscriptions, acks, lastSub, cfg, tm, disk>>

\* The deferred srv.Close(): MultiTenantServer.Close stops the rate limiter
\* and returns s.tenantManager.Close().
MultiTenantServerClose == MainClose("m_defer_srv", "m_defer_tm", "MultiTenantServer.Close")

\* The deferred tenantManager.Close().
MainTenantManagerClose == MainClose("m_defer_tm", "m_exit", "TenantManager.Close")

NextMain ==
    \/ ServerStart
    \/ MainShutdown
    \/ MultiTenantServerClose
    \/ MainTenantManagerClose

SpecMain == InitReg /\ [][NextMain]_vars

\* ------------------------------------------------ requests of the tenants
\* The requests below resolve their api key with GetStore and then call the
\* store found; each call is taken as a whole.
StoreOf(k) == GetStore(tm, k).store

\* Save through the key k: PebbleStore.Save / SQLiteStore.Save on the store
\* of the tenant.
SaveVia ==
    /\ tm # NoTm /\ nextId < MaxEvents
    /\ \E k \in DOMAIN tm.tenants, fail \in BOOLEAN :
        LET h == StoreOf(k)
            st == stores[h]
            db == DiskAt(disk, st.path)
            e == [key |-> k, first |-> nextId + 1]
            p == IF st.backend = "pebble" THEN positionAdd(st.position)
                 ELSE NewRowid(db.events, db.seq)
            written == IF st.backend = "pebble"
                       THEN [db EXCEPT !.kv = (eventKey(p) :> StoredEvent(p, e)) @@ @]
                       ELSE [db EXCEPT !.events = @ \cup {StoredEvent(p, e)}, !.seq = p]
        IN  /\ st.open
            /\ stores' = IF st.backend = "pebble"
                         THEN [stores EXCEPT ![h].position = p] ELSE stores
            /\ disk' = (st.path :> (IF fail THEN db ELSE written)) @@ disk
            /\ acks' = acks \cup {[op |-> "Save", key |-> k, ok |-> ~fail,
                                   id |-> e, pos |-> p]}
            /\ ret' = [op |-> "Save", key |-> k, ok |-> ~fail, pos |-> p,
                       first |-> ~\E a \in acks : a.key = k]
    /\ nextId' = nextId + 1
    /\ UNCHANGED <<backend, position, kv, events, seq, tx, mu, pc, loc,
                   subscriptions, lastSub, cfg, tm>>

\* Load(1, MaxEvents), LoadStream(1, k, handler) with the batches put
\* together, and GetPosition() through the key k.
ReadVia ==
    /\ tm # NoTm
    /\ \E k \in DOMAIN tm.tenants :
        LET st == stores[StoreOf(k)]
            db == DiskAt(disk, st.path)
        IN  /\ st.open
            /\ \/ ret' = [op |-> "Load", key |-> k,
                          events |-> IF st.backend = "pebble"
                                     THEN PebbleLoad(db.kv, 1, MaxEvents)
                                     ELSE SQLiteLoad(db.events, 1, MaxEvents)]
               \/ ret' = [op |-> "LoadStream", key |-> k,
                          events |-> IF st.backend = "pebble"
                                     THEN IterScan(db.kv, eventKey(1), eventRangeEnd)
                                     ELSE loadStmt(db.events, 1, -1)]
               \/ ret' = [op |-> "GetPosition", key |-> k,
                          value |-> IF st.backend = "pebble" THEN st.position
                                    ELSE positionStmt(db.events)]
    /\ UNCHANGED <<storeVars, acks, lastSub, cfg, tm, stores, disk>>

\* The checkpoint the tenants save: subscription "a" at MaxArg.
IsoSubId == <<97>>

\* SaveSubscriptionPosition through the key k.
SaveSubVia ==
    /\ tm # NoTm
    /\ \E k \in DOMAIN tm.tenants, fail \in BOOLEAN :
        LET st == stores[StoreOf(k)]
            db == DiskAt(disk, st.path)
            written == IF st.backend = "pebble"
                       THEN [db EXCEPT !.kv =
                                (subscriptionKey(IsoSubId) :> PutUint64(MaxArg)) @@ @]
                       ELSE [db EXCEPT !.subscriptions = saveSubStmt(@, IsoSubId, MaxArg)]
        IN  /\ st.open
            /\ disk' = (st.path :> (IF fail THEN db ELSE written)) @@ disk
            /\ lastSub' = Saved(~fail, <<k, IsoSubId>>, MaxArg)
            /\ ret' = [op |-> "SaveSubscriptionPosition", key |-> k, ok |-> ~fail]
    /\ UNCHANGED <<storeVars, acks, cfg, tm, stores>>

\* LoadSubscriptionPosition through the key k.
LoadSubVia ==
    /\ tm # NoTm
    /\ \E k \in DOMAIN tm.tenants :
        LET st == stores[StoreOf(k)]
            db == DiskAt(disk, st.path)
            key == subscriptionKey(IsoSubId)
            rows == loadSubStmt(db.subscriptions, IsoSubId)
        IN  /\ st.open
            /\ ret' = [op |-> "LoadSubscriptionPosition", key |-> k,
                       value |-> IF st.backend = "pebble"
                                 THEN (IF key \in DOMAIN db.kv THEN Int64(db.kv[key]) ELSE 0)
                                 ELSE (IF rows = <<>> THEN 0 ELSE rows[1])]
    /\ UNCHANGED <<storeVars, acks, lastSub, cfg, tm, stores, disk>>

\* Two tenants "a" and "b" with the keys k1 and k2, on either backend.
IsoConfigs ==
    {c \in Configs :
        /\ c.Tenants = <<[Name |-> <<97>>, APIKey |-> "k1"], [Name |-> <<98>>, APIKey |-> "k2"]>>
        /\ c.StoreBackend \in Backends}

\* The registry of two tenants as NewTenantManager has built it.
InitIso ==
    /\ InitStore /\ backend = "pebble"
    /\ cfg \in IsoConfigs
    /\ tm = NewTenantManager(cfg, <<>>, <<>>, FALSE, 0).tm
    /\ stores = NewTenantManager(cfg, <<>>, <<>>, FALSE, 0).heap
    /\ disk = <<>>

\* Requests arrive with the two tenants' keys.
NextIso ==
    \/ SaveVia
    \/ ReadVia
    \/ SaveSubVia
    \/ LoadSubVia

SpecIso == InitIso /\ [][NextIso]_vars

\* ------------------------------------------------- the multi-tenant server
\* The routes of setupRoutes: "/events" stands for the routes built with
\* chain (a POST that saves one event), "/position" for a read built with
\* chain.
Routes == {"/events", "/position", "/metrics", "/tenants", "/health"}

\* chain: the rate limiter stands before authMiddleware.
RateLimited(route) == route \in {"/events", "/position"}

\* Every route but /health is wrapped in authMiddleware.
Authenticated(route) == route # "/health"

\* The handlers that take the tenant's store out of the request context.
UsesStore(route) == route \in {"/events", "/position", "/metrics"}

\* The Authorization header of a request: a scheme and what follows it.
NoAuthorization == [scheme |-> "", rest |-> ""]

Authorizations ==
    {NoAuthorization, [scheme |-> "", rest |-> "k2"],
     [scheme |-> "Bearer ", rest |-> "k2"], [scheme |-> "Bearer ", rest |-> "other"],
     [scheme |-> "Bearer ", rest |-> ""], [scheme |-> "Basic ", rest |-> "k2"]}

\* The headers of a request: X-API-Key ("" when absent) and Authorization.
Headers ==
    {[x |-> "", a |-> a] : a \in Authorizations}
        \cup {[x |-> x, a |-> a] : x \in {"k1", "other"},
                                   a \in {NoAuthorization, [scheme |-> "Bearer ", rest |-> "k2"]}}

\* The api key authMiddleware takes from the headers: X-API-Key, else
\* Authorization with a leading "Bearer " cut.
headerKey(x, a) ==
    IF x # "" THEN x
    ELSE IF a.scheme \in {"", "Bearer "} THEN a.rest
    ELSE <<a.scheme, a.rest>>

\* authMiddleware on the manager m: 401 without next, or next with the store
\* and the name of GetStore in the request context.
authMiddleware(m, x, a) ==
    LET apiKey == headerKey(x, a)
        g == GetStore(m, apiKey)
    IN  IF apiKey = "" THEN [next |-> FALSE, status |-> 401, store |-> 0, name |-> <<>>]
        ELSE IF ~g.found THEN [next |-> FALSE, status |-> 401, store |-> 0, name |-> <<>>]
        ELSE [next |-> TRUE, status |-> 200, store |-> g.store, name |-> g.name]

\* Save(e) on the store h: the position, the heap and the disk after it.
SaveOn(h, e, fail) ==
    LET st == stores[h]
        db == DiskAt(disk, st.path)
        p == IF st.backend = "pebble" THEN positionAdd(st.position)
             ELSE NewRowid(db.events, db.seq)
        written == IF st.backend = "pebble"
                   THEN [db EXCEPT !.kv = (eventKey(p) :> StoredEvent(p, e)) @@ @]
                   ELSE [db EXCEPT !.events = @ \cup {StoredEvent(p, e)}, !.seq = p]
    IN  [pos |-> p,
         stores |-> IF st.backend = "pebble"
                    THEN [stores EXCEPT ![h].position = p] ELSE stores,
         disk |-> (st.path :> (IF fail THEN db ELSE written)) @@ disk]

\* GetPosition() on the store h.
PositionOn(h) ==
    LET st == stores[h]
    IN  IF st.backend = "pebble" THEN st.position
        ELSE positionStmt(DiskAt(disk, st.path).events)

\* One request through the mux: allow is the answer of the client's rate
\* limiter, fail a failure of the store's Save.
ServeHTTP ==
    /\ tm # NoTm
    /\ \E route \in Routes, hd \in Headers, allow \in BOOLEAN, fail \in BOOLEAN :
        LET x == hd.x
            a == hd.a
            limited == RateLimited(route) /\ ~allow
            auth == authMiddleware(tm, x, a)
            served == ~limited /\ (Authenticated(route) => auth.next)
            h == IF served /\ UsesStore(route) THEN auth.store ELSE 0
            saves == served /\ route = "/events"
            e == [key |-> headerKey(x, a), first |-> nextId + 1]
            status == IF limited THEN 429
                      ELSE IF Authenticated(route) /\ ~auth.next THEN auth.status
                      ELSE IF saves /\ fail THEN 500
                      ELSE 200
        IN  /\ saves => nextId < MaxEvents
            /\ ~saves => ~fail
            /\ ~RateLimited(route) => allow
            /\ stores' = IF saves THEN SaveOn(h, e, fail).stores ELSE stores
            /\ disk' = IF saves THEN SaveOn(h, e, fail).disk ELSE disk
            /\ nextId' = IF saves THEN nextId + 1 ELSE nextId
            /\ acks' = IF saves
                       THEN acks \cup {[op |-> "Save", key |-> headerKey(x, a), ok |-> ~fail,
                                        id |-> e, pos |-> SaveOn(h, e, fail).pos]}
                       ELSE acks
            /\ ret' = [op |-> "ServeHTTP", route |-> route, allow |-> allow,
                       key |-> headerKey(x, a), status |-> status, store |-> h,
                       value |-> IF saves THEN SaveOn(h, e, fail).pos
                                 ELSE IF h # 0 THEN PositionOn(h) ELSE 0]
    /\ UNCHANGED <<backend, position, kv, events, seq, tx, mu, pc, loc,
                   subscriptions, lastSub, cfg, tm>>

NextHttp == ServeHTTP

SpecHttp == InitIso /\ [][NextHttp]_vars

\* ================================================================ claims
WritePcs == {"p_save_set", "p_batch_loop", "p_batch_commit",
             "s_save_exec", "s_batch_loop", "s_batch_commit"}

\* No Save/SaveBatch call is in progress.
Quiescent == \A t \in Threads : pc[t] \notin WritePcs

AckedPayloads == UNION {Range(a.ids) : a \in acks}

SaveAcks == {a \in acks : a.op = "Save"}

Ascending(evs) ==
    \A i, j \in 1..Len(evs) : i < j => evs[i].position < evs[j].position

\* The position the next successful Save would be given.
NextSavePosition ==
    IF backend = "pebble" THEN positionAdd(position) ELSE NewRowid(events, seq)

\* C1: whenever no Save/SaveBatch is in progress, the positions of the
\* persisted events are exactly 1..N, N the number of persisted events, and
\* every acknowledged event is one of them (no gap, no duplicate).
C1_GaplessPositions ==
    Quiescent =>
        /\ PersistedPositions = 1..Cardinality(Persisted)
        /\ Cardinality(Persisted) = Cardinality(AckedPayloads)

\* C2: when every event handed to an empty store was handed by a Save and all
\* these Saves have returned success, N of them, the positions returned are
\* exactly 1..N, each once; and no two Saves ever return the same position.
C2_ConcurrentSavePositions ==
    /\ (Quiescent /\ Cardinality(SaveAcks) = nextId) =>
           {a.pos[1] : a \in SaveAcks} = 1..nextId
    /\ \A a, b \in SaveAcks : a.pos = b.pos => a = b

\* C2 witness: as many Saves as there are threads have all succeeded, and the
\* last one to return does not hold the greatest position: a Save that took
\* its position later returned earlier, so the calls overlapped.
C2_Witness ==
    /\ Quiescent
    /\ nextId >= NumThreads
    /\ Cardinality(SaveAcks) = nextId
    /\ ret.op = "Save" /\ ret.ok /\ ret.pos[1] < nextId

\* C3: a successful SaveBatch has given its events one contiguous ascending
\* block of positions in list order, whatever ran concurrently, and the
\* events are persisted at these positions.
C3_BatchContiguous ==
    (ret.op = "SaveBatch" /\ ret.ok) =>
        /\ \A i \in 1..Len(ret.pos) : ret.pos[i] = ret.pos[1] + (i - 1)
        /\ \A i \in 1..Len(ret.pos) : StoredEvent(ret.pos[i], ret.ids[i]) \in Persisted

\* C4: after a SaveBatch of k events that began at position p has failed (the
\* caller being the only writer), GetPosition() is p, Load(p+1, p+k) is empty
\* and the next successful Save is given p+1.
C4_FailedBatchLeavesPosition ==
    (ret.op = "SaveBatch" /\ ~ret.ok) =>
        /\ GetPosition = ret.p0
        /\ LoadResult(ret.p0 + 1, ret.p0 + Len(ret.ids)) = <<>>
        /\ NextSavePosition = ret.p0 + 1

\* C5: a Save that returned an error has persisted nothing and has left
\* GetPosition() as it was; a Save that returned success has persisted its
\* event and advanced GetPosition() by one (the caller being the only writer).
C5_FailedSaveLeavesPosition ==
    (ret.op = "Save") =>
        IF ret.ok
        THEN /\ GetPosition = ret.p0 + 1
             /\ \E r \in Persisted : r.id = ret.ids[1]
        ELSE /\ GetPosition = ret.p0
             /\ \A r \in Persisted : r.id # ret.ids[1]

\* The events evs hold none or all of the events of every batch.
WholeBatches(evs) ==
    \A r \in evs : \A j \in 1..r.id.n :
        \E q \in evs : q.id = [r.id EXCEPT !.i = j]

\* C6: in every state the loadable events hold none or all of the events of
\* each batch, and so does what a Load returned, also a Load that ran while
\* a SaveBatch was in progress or after one failed.
C6_BatchAllOrNothing ==
    /\ WholeBatches(Persisted)
    /\ ret.op = "Load" => WholeBatches(Range(ret.events))

\* C6 witness: a Load has returned while a SaveBatch of two events, both
\* already given their positions, has not committed yet.
C6_Witness ==
    /\ ret.op = "Load"
    /\ \E t \in Threads :
        pc[t] \in {"p_batch_commit", "s_batch_commit"} /\ Len(loc[t].ids) = 2

\* C7: in every state GetPosition() is the greatest persisted position, 0 for
\* an empty store, and that is what a GetPosition call returned.
C7_PositionIsMaxPersisted ==
    /\ GetPosition = MaxPersisted
    /\ ret.op = "GetPosition" => ret.value = MaxPersisted

\* C8: for from >= 1 and to >= from-1, Load(from, to) returns with no error
\* exactly the persisted events with from <= position <= to, ascending.
C8_LoadRange ==
    (ret.op = "Load" /\ ret.from >= 1 /\ ret.to >= ret.from - 1) =>
        /\ ret.ok
        /\ Range(ret.events) =
               {r \in Persisted : ret.from <= r.position /\ r.position <= ret.to}
        /\ Ascending(ret.events)

\* C8 witness: a Load from position 2 has returned two events of a store that
\* holds three.
C8_Witness ==
    /\ ret.op = "Load" /\ ret.from = 2 /\ ret.to >= 3
    /\ Len(ret.events) = 2
    /\ Cardinality(Persisted) = 3

\* C9: Load(from, -1) returns, on either backend, the persisted events with
\* position >= from in ascending order (at most DefaultLoadLimit of them).
C9_OpenEndedLoad ==
    (ret.op = "Load" /\ ret.to = -1 /\ ret.from >= 1) =>
        /\ Range(ret.events) = {r \in Persisted : r.position >= ret.from}
        /\ Ascending(ret.events)

\* C10: with no write during the stream (the caller streams and does nothing
\* else meanwhile), the batches LoadStream(1, k, handler) handed to handler,
\* concatenated in call order, are Load(1, GetPosition()).
C10_StreamEqualsLoad ==
    (ret.op = "LoadStream" /\ ret.from = 1) =>
        Concat(ret.out) = LoadResult(1, GetPosition)

\* C10 witness: a stream from 1 with batch size 2 has handed over two batches,
\* the second one shorter.
C10_Witness ==
    /\ ret.op = "LoadStream" /\ ret.from = 1
    /\ ret.batchSize = 2
    /\ Len(ret.out) = 2 /\ Len(ret.out[2]) = 1

\* The persisted events at position >= from, ascending.
EventsFrom(from) == RowsAscending({r \in Persisted : r.position >= from})

CeilDiv(m, k) == (m + k - 1) \div k

\* C11: with no write during the stream and no failure, LoadStream(from, k,
\* handler), k >= 1, on a store with M events at position >= from invokes
\* handler exactly ceil(M/k) times, every batch holds between 1 and k events
\* and only the last may hold fewer than k.
C11_StreamBatchCount ==
    (ret.op = "LoadStream" /\ ret.batchSize >= 1) =>
        /\ Len(ret.out) = CeilDiv(Len(EventsFrom(ret.from)), ret.batchSize)
        /\ \A i \in 1..Len(ret.out) :
               /\ 1 <= Len(ret.out[i]) /\ Len(ret.out[i]) <= ret.batchSize
               /\ i < Len(ret.out) => Len(ret.out[i]) = ret.batchSize

\* C11 witness: a stream with batch size 2 over a store of exactly two events
\* has returned after one call of handler, with both events.
C11_Witness ==
    /\ ret.op = "LoadStream" /\ ret.from = 1 /\ ret.batchSize = 2
    /\ Cardinality(Persisted) = 2
    /\ Len(ret.out) = 1 /\ Len(ret.out[1]) = 2

\* The number of calls of handler made after ctx was cancelled.
LateCalls(late) == Cardinality({i \in 1..Len(late) : late[i]})

C13_HandlerErrorAborts ==
    /\ \A t \in Threads : pc[t] \in StreamPcs =>
           \A i \in 1..Len(loc[t].herrs) : ~loc[t].herrs[i]
    /\ ret.op = "LoadStream" =>
           /\ \A i \in 1..Len(ret.herrs) : ret.herrs[i] => i = Len(ret.herrs)
           /\ (\E i \in 1..Len(ret.herrs) : ret.herrs[i]) =>
                  ~ret.ok /\ Carries(ret.err, handlerErr)

\* C13 witness: handler has failed on the second batch of a stream that had
\* more events to hand over, and the stream has returned.
C13_Witness ==
    /\ ret.op = "LoadStream" /\ ~ret.cancelled
    /\ Len(ret.herrs) = 2 /\ ret.herrs[2]
    /\ Len(Concat(ret.out)) < Len(EventsFrom(ret.from))

\* The subscription ids that have an entry in the store.
StoredSubIds ==
    IF backend = "pebble"
    THEN {id \in SubIds : subscriptionKey(id) \in DOMAIN kv}
    ELSE DOMAIN subscriptions

\* C14: LoadSubscriptionPosition(id) returns with no error the value of the
\* most recent successful SaveSubscriptionPosition for id, 0 for an id never
\* saved; the store holds one entry per saved id and none for another.
C14_SubscriptionLastWriteWins ==
    /\ ret.op = "LoadSubscriptionPosition" =>
           /\ ret.ok
           /\ ret.value = IF ret.id \in DOMAIN lastSub THEN lastSub[ret.id].value ELSE 0
    /\ StoredSubIds = DOMAIN lastSub

\* C14 witness: a checkpoint that was saved more than once, last with -1, has
\* been loaded from a store that also holds events and another checkpoint.
C14_Witness ==
    /\ ret.op = "LoadSubscriptionPosition"
    /\ ret.id \in DOMAIN lastSub /\ lastSub[ret.id].replaced
    /\ ret.value = -1
    /\ Persisted # {}
    /\ \E id \in DOMAIN lastSub : lastSub[id].value = MaxArg

\* The i-th entry of the tenant list is one of: an empty name, a name with
\* a '/', a name of MaxNameLen + 1 characters, an empty api_key, an api_key of
\* an earlier entry.
InvalidEntry(list, i) ==
    \/ list[i].Name = <<>>
    \/ \E j \in 1..Len(list[i].Name) : list[i].Name[j] = 47
    \/ Len(list[i].Name) = MaxNameLen + 1
    \/ list[i].APIKey = ""
    \/ \E j \in 1..(i - 1) : list[j].APIKey = list[i].APIKey

OpenStores == {h \in 1..Len(stores) : stores[h].open}

\* C16: NewTenantManager on a tenant list with an invalid entry at any list
\* position fails, returns no registry and leaves no store open.
C16_InvalidConfigRejected ==
    (ret.op = "NewTenantManager"
         /\ \E i \in 1..Len(cfg.Tenants) : InvalidEntry(cfg.Tenants, i)) =>
        /\ ~ret.ok
        /\ tm = NoTm
        /\ OpenStores = {}

\* Two entries of the tenant list carry the same valid name and different,
\* non-empty api keys.
SameNameTwice(list) ==
    \E i, j \in 1..Len(list) :
        /\ i < j /\ list[i].Name = list[j].Name /\ validTenantName(list[i].Name)
        /\ list[i].APIKey # list[j].APIKey /\ list[i].APIKey # "" /\ list[j].APIKey # ""

\* C17: no two store instances of a constructed registry share a storage
\* path, and a tenant list with one name under two api keys is rejected with
\* a configuration error.
C17_NoSharedPath ==
    /\ tm # NoTm =>
           \A g, h \in Handles(tm) : stores[g].path = stores[h].path => g = h
    /\ (ret.op = "NewTenantManager" /\ SameNameTwice(cfg.Tenants)
            /\ \A i \in 1..Len(cfg.Tenants) : ~InvalidEntry(cfg.Tenants, i)
            /\ cfg.StoreBackend \in {"sqlite", "pebble"}) =>
           (~ret.ok /\ ret.err \in ConfigErrors)

\* C18: on a constructed registry GetStore(k) returns, for the api key k of
\* a configured tenant, found with the name of that one tenant and the store
\* instance opened for it (the same on every call), and not found for any
\* other key.
C18_GetStore ==
    ret.op = "GetStore" =>
        LET I == {i \in 1..Len(cfg.Tenants) : cfg.Tenants[i].APIKey = ret.key}
        IN  IF I = {} THEN ~ret.found
            ELSE /\ ret.found
                 /\ Cardinality(I) = 1
                 /\ \A i \in I :
                        /\ ret.name = cfg.Tenants[i].Name
                        /\ ret.store = i
                        /\ stores[i].path[2] = cfg.Tenants[i].Name

\* C18 witness: the key of the second of two tenants has been looked up and
\* found.
C18_Witness ==
    /\ ret.op = "GetStore" /\ ret.found /\ ret.store = 2
    /\ Cardinality(DOMAIN tm.tenants) = 2

\* C19: TenantManager.Close has called Close once on every tenant's store,
\* returns an error iff the Close of some store failed, and the error is the
\* one of the last failing store in the order of the loop.
C19_CloseAll ==
    ret.op = "Close" =>
        LET bad == {i \in 1..Len(ret.order) : tm.tenants[ret.order[i]].Store \in ret.failed}
        IN  /\ \A h \in Handles(tm) : stores[h].closeCalls = 1
            /\ ret.ok <=> ret.failed = {}
            /\ bad # {} => ret.err = closeErr(tm.tenants[ret.order[SetMax(bad)]].Store)

\* C19 witness: of two tenants' stores the one closed first has failed to
\* close, the other has closed.
C19_Witness ==
    /\ ret.op = "Close" /\ Len(ret.order) = 2
    /\ ret.failed = {tm.tenants[ret.order[1]].Store}
    /\ \A h \in Handles(tm) : stores[h].closeCalls = 1

\* C20: NewTenantManager with a backend selector that is neither of the two
\* supported values (nor the empty one that stands for the default) fails
\* and opens no store.
C20_UnknownBackendRejected ==
    (ret.op = "NewTenantManager" /\ cfg.StoreBackend \notin {"sqlite", "pebble", ""}) =>
        /\ ~ret.ok
        /\ stores = <<>>

\* The acknowledged Saves made with the api key k.
SavedVia(k) == {a \in acks : a.key = k /\ a.ok}

\* C15: with two tenants of different names, the first Save through either
\* key is given position 1, and what Load, LoadStream, GetPosition and
\* LoadSubscriptionPosition return to a key is what the calls made with that
\* same key alone account for.
C15_TenantIsolation ==
    /\ (ret.op = "Save" /\ ret.first /\ ret.ok) => ret.pos = 1
    /\ ret.op \in {"Load", "LoadStream"} =>
           Range(ret.events) = {StoredEvent(a.pos, a.id) : a \in SavedVia(ret.key)}
    /\ ret.op = "GetPosition" =>
           ret.value = Cardinality({a \in acks : a.key = ret.key /\
                           (a.ok \/ stores[StoreOf(ret.key)].backend = "pebble")})
    /\ ret.op = "LoadSubscriptionPosition" =>
           ret.value = IF <<ret.key, IsoSubId>> \in DOMAIN lastSub
                       THEN lastSub[<<ret.key, IsoSubId>>].value ELSE 0

\* C15 witness: k2's first Save has been given position 1 after k1 had saved
\* an event at position 1 and a checkpoint.
C15_Witness ==
    /\ ret.op = "Save" /\ ret.key = "k2" /\ ret.first /\ ret.ok /\ ret.pos = 1
    /\ \E a \in SavedVia("k1") : a.pos = 1
    /\ <<"k1", IsoSubId>> \in DOMAIN lastSub

\* Call a had returned before call b was invoked: the events handed over up
\* to the return of a do not include the first event of b.
ReturnedBefore(a, b) == a.done < b.ids[1].first

\* C21: of two successful Save/SaveBatch calls of which the first returned
\* before the second was invoked, every position of the first is smaller than
\* every position of the second; and no position is given to two events of
\* successful calls, so that the positions order all of them strictly.
C21_RealTimeOrder ==
    \A a, b \in acks :
        /\ ReturnedBefore(a, b) =>
               \A i \in 1..Len(a.pos), j \in 1..Len(b.pos) : a.pos[i] < b.pos[j]
        /\ \A i \in 1..Len(a.pos), j \in 1..Len(b.pos) :
               a.pos[i] = b.pos[j] => (a = b /\ i = j)

\* C21 witness: a SaveBatch of two events has returned before a Save was
\* invoked, and both have succeeded.
C21_Witness ==
    \E a, b \in acks :
        /\ ReturnedBefore(a, b)
        /\ a.op = "SaveBatch" /\ Len(a.pos) = 2 /\ b.op = "Save"

\* C22: a re-opened LSM store reports the position of the last persisted
\* event (0 without events); a Save that succeeds is given the position the
\* store reported when it was called plus 1; and an event persisted at a
\* position stays the event at that position, so that no position of a
\* persisted event is given out again.
C22_CounterRecovered ==
    backend = "pebble" =>
        /\ ret.op = "Reopen" => (ret.value = MaxPersisted /\ GetPosition = ret.value)
        /\ (ret.op = "GetPosition" /\ \A t \in Threads : pc[t] = "idle") =>
               ret.value >= MaxPersisted
        /\ (ret.op = "Save" /\ ret.ok) => ret.pos[1] = ret.p0 + 1
        /\ \A a \in acks : \A i \in 1..Len(a.pos) :
               /\ eventKey(a.pos[i]) \in DOMAIN kv
               /\ kv[eventKey(a.pos[i])] = StoredEvent(a.pos[i], a.ids[i])

\* C22 witness: after a re-opening that took the counter back from a position
\* no event was persisted at, to the position of the last persisted event, a
\* Save has been given the position after it.
C22_Witness ==
    /\ ret.op = "Save" /\ ret.ok
    /\ ret.pos[1] < ret.ids[1].first
    /\ ret.pos[1] = 2
    /\ Cardinality(Persisted) = 2

\* The events of the successful calls, at the positions they were given.
AckedEvents ==
    UNION {{StoredEvent(a.pos[i], a.ids[i]) : i \in 1..Len(a.pos)} : a \in acks}

\* C23: every step of every call leaves each persisted event persisted, with
\* its position and payload; and a Load returns, for every position of its
\* range at which an event of a successful call was persisted, that event.
C23_EventsImmutable ==
    /\ [][\A r \in Persisted : r \in Persisted']_vars
    /\ [](ret.op = "Load" =>
            \A r \in AckedEvents :
                (ret.from <= r.position /\ r.position <= ret.to) =>
                    r \in Range(ret.events))

\* C23 witness: of three events handed to the store one was not persisted;
\* a Load has returned the two events of two successful calls, the first of
\* which was persisted before the other call began.
C23_Witness ==
    /\ ret.op = "Load" /\ Len(ret.events) = 2 /\ nextId = 3
    /\ \A t \in Threads : pc[t] = "idle"
    /\ \E a, b \in acks : ReturnedBefore(a, b)

\* What the store holds under the subscription id: the value of the key, or
\* the column of the row.
StoredCheckpoint(id) ==
    IF backend = "pebble" THEN kv[subscriptionKey(id)] ELSE subscriptions[id]

\* The checkpoint the store holds for the subscription id.
Checkpoint(id) ==
    IF backend = "pebble" THEN Int64(kv[subscriptionKey(id)]) ELSE subscriptions[id]

\* The subscription checkpoints of the store: id -> position.
Checkpoints == [id \in StoredSubIds |-> Checkpoint(id)]

\* C24: a step in which a SaveBatch of no events returns, returns success and
\* leaves the persisted events, GetPosition() and every subscription
\* checkpoint as they were.
C24_EmptyBatchNoOp ==
    [][(ret' # ret /\ ret'.op = "SaveBatch" /\ ret'.ids = <<>>) =>
           /\ ret'.ok
           /\ Persisted' = Persisted
           /\ GetPosition' = GetPosition
           /\ Checkpoints' = Checkpoints]_vars

\* C24 witness: a SaveBatch of no events has returned success on a store that
\* holds an event and a checkpoint.
C24_Witness ==
    /\ ret.op = "SaveBatch" /\ ret.ids = <<>> /\ ret.ok
    /\ Persisted # {} /\ StoredSubIds # {}
    /\ ret.p0 = GetPosition

\* C25: a step in which SaveSubscriptionPosition(id, v) returns leaves the
\* persisted events and GetPosition() as they were and, when it succeeds,
\* has stored v for id whatever v is; every other step, those of Save and
\* SaveBatch among them, leaves every checkpoint as it was.
C25_CheckpointsIndependent ==
    [][IF ret' # ret /\ ret'.op = "SaveSubscriptionPosition"
       THEN /\ GetPosition' = GetPosition
            /\ Persisted' = Persisted
            /\ \A id \in SubIds :
                   IF id = ret'.id
                   THEN ret'.ok => (id \in StoredSubIds' /\ Checkpoint(id)' = ret'.value)
                   ELSE id \in StoredSubIds =>
                            /\ id \in StoredSubIds'
                            /\ \/ StoredCheckpoint(id)' = StoredCheckpoint(id)
                               \/ Checkpoint(id)' = Checkpoint(id)
       ELSE \/ kv' = kv /\ subscriptions' = subscriptions
            \/ Checkpoints' = Checkpoints]_vars

\* C25 witness: a checkpoint beyond the last event has been saved on a store
\* with an event, and a later Save has left it in place.
C25_Witness ==
    /\ ret.op = "Save" /\ ret.ok
    /\ \E id \in StoredSubIds : Checkpoints[id] > GetPosition
    /\ \E id \in StoredSubIds : Checkpoints[id] = -1

\* What Load hands to its caller is the events and an error: a result that
\* was cut at the limit can be told from a complete one by the error alone.
CapSignal(r) == ~r.ok

\* C26: a Load(from, -1) on a store that holds more events at position >=
\* from than the limit returns the first limit-many of them, ascending, and
\* tells the caller that the result was cut.
C26_CapSignalled ==
    (ret.op = "Load" /\ ret.to = -1
         /\ Cardinality({r \in Persisted : r.position >= ret.from}) > DefaultLoadLimit) =>
        /\ Len(ret.events) = DefaultLoadLimit
        /\ \A i \in 1..Len(ret.events) : ret.events[i].position = ret.from + i - 1
        /\ CapSignal(ret)

\* C27: whatever batch size the caller of LoadStream passes, no call of
\* handler is handed more events than the upper limit of the batch size, the
\* one in the code being the limit the HTTP handler puts on batch_size.
C27_BatchSizeBounded ==
    ret.op = "LoadStream" =>
        /\ 1 <= ret.batchSize /\ ret.batchSize <= MaxStreamBatch
        /\ \A i \in 1..Len(ret.out) : Len(ret.out[i]) <= MaxStreamBatch


\* C28: a request whose api key is missing or belongs to no tenant is
\* answered 401 and works on no store; a request with a tenant's key works on
\* no store but the one the registry holds for the key.
C28_Unauthorized401 ==
    ret.op = "ServeHTTP" =>
        IF ret.key \notin DOMAIN tm.tenants
        THEN ret.status = 401 /\ ret.store = 0
        ELSE ret.store \in {0, tm.tenants[ret.key].Store}

\* C28 on the routes behind authMiddleware: a request whose api key is missing
\* or belongs to no tenant is answered 401, or 429 where the rate limiter of
\* chain turns it away first, and touches no store on any route; a request
\* with a tenant's key touches no store but the one the registry holds for
\* the key.
C28_UnauthorizedNoStore ==
    [][ret'.op = "ServeHTTP" =>
        IF ret'.key \notin DOMAIN tm.tenants
        THEN /\ ret'.store = 0 /\ disk' = disk /\ stores' = stores
             /\ ret'.route # "/health" =>
                    ret'.status = IF RateLimited(ret'.route) /\ ~ret'.allow
                                  THEN 429 ELSE 401
        ELSE /\ ret'.store \in {0, tm.tenants[ret'.key].Store}
             /\ \A h \in DOMAIN stores :
                    ( \/ stores'[h] # stores[h]
                      \/ DiskAt(disk', stores[h].path) # DiskAt(disk, stores[h].path) )
                        => stores[h].path = stores[tm.tenants[ret'.key].Store].path]_vars

\* A request with a key of no tenant was turned away with 401 on a route that
\* saves, after a tenant has saved.
C28_Witness ==
    /\ ret.op = "ServeHTTP" /\ ret.route = "/events"
    /\ ret.key = "other" /\ ret.status = 401
    /\ \E a \in acks : a.ok /\ a.key \in DOMAIN tm.tenants

\* The steps that run with the exclusive side of SQLiteStore.mu held.
ExclusivePcs == {"s_save_exec", "s_batch_loop", "s_batch_commit"}

\* C29: while a write of the relational store executes, no other write
\* executes and no stream reads the rows of a page.
C29_WritesExclude ==
    backend = "sqlite" =>
        \A w \in Threads : pc[w] \in ExclusivePcs =>
            \A t \in Threads \ {w} : pc[t] \notin ExclusivePcs \cup {"s_stream_locked", "s_stream_rows"}

\* C30: a Save blocked in Lock while a stream runs gets the lock and
\* returns, whether or not the stream ever ends.
C30_WriterNotStarved == (pc[Writer] = "s_save_wait") ~> (pc[Writer] = "idle")

\* A Save holds the exclusive side while a stream that has handed a page to
\* its handler is inside the handler with a further page.
C30_Witness ==
    /\ pc[Writer] = "s_save_exec"
    /\ pc[Caller] = "s_stream_handler"
    /\ Len(loc[Caller].out) >= 1

\* The keys of the store that a scan of the whole event range meets.
EventRangeKeys ==
    {k \in DOMAIN kv : ~KeyLess(k, <<eventPrefix>>) /\ KeyLess(k, eventRangeEnd)}

\* C31: the order of two event keys is the order of their positions; no
\* subscription key, that of the empty id included, is an event key or lies
\* in the event range, so that Load and the scan at opening meet event keys
\* only.
C31_KeyOrder ==
    /\ ret.op = "eventKey" => ((ret.a < ret.b) <=> ret.less)
    /\ \A id \in SubIds :
        /\ \A p \in KeyPositions : subscriptionKey(id) # eventKey(p)
        /\ subscriptionKey(id) \notin EventRangeKeys
    /\ \A k \in EventRangeKeys : Len(k) = 9 /\ k[1] = eventPrefix
    /\ ret.op = "Load" => Len(ret.events) <= Cardinality(EventRangeKeys)
    /\ ret.op = "Reopen" =>
           ret.value \in {0} \cup {Int64(SubSeq(k, 2, 9)) : k \in EventRangeKeys}

\* A Load has returned events from a store that holds a checkpoint under the
\* empty id and one under another id.
C31_Witness ==
    /\ ret.op = "Load" /\ Len(ret.events) >= 1
    /\ \A id \in SubIds : subscriptionKey(id) \in DOMAIN kv

\* C32: at every instant, calls in flight or not, the positions a reader can
\* load are a prefix 1..M: with an event at q, every position below q holds
\* an event too.
C32_NoHole ==
    \A q \in PersistedPositions : \A p \in 1..q : p \in PersistedPositions

\* The positions of the events of s rise strictly and none lies below from.
AscendingFrom(s, from) ==
    \A i \in 1..Len(s) :
        /\ s[i].position >= from
        /\ i > 1 => s[i - 1].position < s[i].position

PebbleStreamPcs == {"p_stream_loop", "p_stream_handler", "p_stream_rest"}

\* What a stream of the LSM store has handed over and has yet to hand over.
Scanned(l) == Range(Concat(l.out)) \cup Range(l.batch) \cup Range(l.iter)

\* C33: the events one LoadStream call hands to its handler, over all the
\* invocations, rise strictly in position and none lies below from, while
\* another thread saves; on the LSM store the iterator holds only events
\* persisted when it was created, nothing joins it afterwards, and the call
\* hands over nothing else.
C33_StreamAscending ==
    /\ [](/\ \A t \in Threads : pc[t] \in StreamPcs =>
                AscendingFrom(Concat(loc[t].out) \o loc[t].batch, loc[t].from)
          /\ ret.op = "LoadStream" => AscendingFrom(Concat(ret.out), ret.from))
    /\ [][\A t \in Threads :
            /\ (pc[t] = "idle" /\ pc'[t] = "p_stream_loop") =>
                   Range(loc'[t].iter) \subseteq Persisted
            /\ (pc[t] \in PebbleStreamPcs /\ pc'[t] \in PebbleStreamPcs) =>
                   Scanned(loc'[t]) = Scanned(loc[t])
            /\ (pc[t] \in PebbleStreamPcs /\ pc'[t] = "idle") =>
                   Range(Concat(ret'.out)) \subseteq Scanned(loc[t])]_vars

\* A stream of the LSM store has returned after two invocations of its
\* handler, and the store holds an event at or above from, saved meanwhile,
\* that was not handed over.
C33_Witness ==
    /\ backend = "pebble" /\ ret.op = "LoadStream" /\ ret.ok
    /\ Len(ret.out) >= 2
    /\ \E r \in Persisted : r.position >= ret.from /\ r \notin Range(Concat(ret.out))

\* C34: a LoadStream call whose handler returns and whose ctx is not
\* cancelled returns, also while another thread keeps saving events.
C34_StreamReturns == (pc[Caller] \in StreamPcs) ~> (pc[Caller] = "idle")

\* C35: whenever LoadStream is inside its handler no side of the store's
\* lock is held, so that a Save and a SaveSubscriptionPosition the handler
\* calls on the same store can be executed there and then.
C35_HandlerHoldsNoLock ==
    \A t \in Threads : pc[t] \in HandlerPcs =>
        /\ backend = "sqlite" => (mu = 0 /\ Readers = {})
        /\ nextId < MaxEvents => ENABLED HandlerSave(t)
        /\ ENABLED HandlerSaveSubscriptionPosition(t)

\* A stream of the relational store has returned with no error after two
\* invocations of its handler, the first of which saved the checkpoint the
\* store holds.
C35_Witness ==
    /\ backend = "sqlite"
    /\ ret.op = "LoadStream" /\ ret.ok /\ Len(ret.out) >= 2
    /\ HandlerSubId \in StoredSubIds
    /\ Checkpoint(HandlerSubId) = ret.out[1][Len(ret.out[1])].position

\* C36: when Save or SaveBatch returns an error, every event of the caller
\* has the Position it came with (0 for the new events the callers hand
\* over): none carries a position the call gave it.
C36_FailedWriteKeepsPositions ==
    (ret.op \in {"Save", "SaveBatch"} /\ ~ret.ok) =>
        \A i \in 1..Len(ret.pos) : ret.pos[i] = 0

\* The events R as the LSM store holds them: under the keys of their positions.
KvOf(R) ==
    [k \in {eventKey(r.position) : r \in R} |->
        CHOOSE r \in R : eventKey(r.position) = k]

Positions(s) == [i \in 1..Len(s) |-> s[i].position]

\* C37: for from <= 1 and to >= 1, Load(from, to) returns what Load(1, to)
\* returns, and the two backends, holding the same events, return the same
\* positions for (from, to).
C37_LoadFromBelow ==
    (ret.op = "Load" /\ ret.from <= 1 /\ ret.to >= 1) =>
        /\ ret.events = LoadResult(1, ret.to)
        /\ Positions(PebbleLoad(KvOf(Persisted), ret.from, ret.to))
               = Positions(SQLiteLoad(Persisted, ret.from, ret.to))

\* C38: a POST to /events/batch with an empty list is answered with success
\* and persists nothing; a list of 1..BatchLimit events the store accepts is
\* persisted and answered with the positions of its first and last event; a
\* longer list is rejected and persists nothing.
C38_BatchLengths ==
    [][(ret' # ret /\ ret'.op = "batchEventsHandler") =>
          /\ ret'.n = 0 =>
                 ret'.status = 200 /\ ~ret'.panic /\ Persisted' = Persisted
          /\ (ret'.n \in 1..BatchLimit /\ ret'.status # 500) =>
                 /\ ret'.status = 200 /\ ret'.saved = ret'.n
                 /\ ret'.last_position = ret'.first_position + ret'.n - 1
                 /\ PersistedPositions' =
                        PersistedPositions \cup (ret'.first_position)..(ret'.last_position)
                 /\ PersistedPositions \cap (ret'.first_position)..(ret'.last_position) = {}
          /\ ret'.n > BatchLimit =>
                 ret'.status = 400 /\ Persisted' = Persisted]_vars

\* C39: the shutdown of the multi-tenant server never calls Close twice on a
\* tenant's store, and when main has returned every tenant's store has been
\* closed exactly once.
C39_ClosedOnce ==
    tm # NoTm =>
        /\ \A h \in Handles(tm) : stores[h].closeCalls <= 1
        /\ pc[Caller] = "m_exit" => \A h \in Handles(tm) : stores[h].closeCalls = 1
====
